---- MODULE Spec2Model ----
(***************************************************************************)
(* Coeus: the chat-turn orchestrator (ai_logic/CoeusModel.py), the tool    *)
(* registry and its parallel dispatcher (ai_logic/tools.py) and the        *)
(* session bookkeeping of the conversation memory (ai_logic/memory.py).    *)
(*                                                                         *)
(* A turn is the generator Coeus.chat / Coeus.chat_streaming.  It is cut   *)
(* into steps at its suspension points: each inference call, each handler  *)
(* completion inside the thread pool, each yield.  Texts are strings,      *)
(* wall-clock time is counted in minutes.                                  *)
(***************************************************************************)
EXTENDS Integers, Sequences, FiniteSets, TLC

(***************************************************************************)
(* Bounds of the exploration.                                              *)
(***************************************************************************)
MaxTurns == 2
MaxBatch == 3
MaxScript == 3
MaxHistoryTurns == 1
MaxSuffix == 1
MaxSessionTurns == 3
MaxHandler == 2
MaxRegLog == 4
MaxWords == 5
MaxChunkSize == 3
MaxChunks == 7
MaxRagChunks == 6
MaxWriters == 2
MaxWrites == 3
MaxObserved == 2
MaxPoolBatch == 11
MaxMutations == 2
MaxFsCalls == 2

(***************************************************************************)
(* Program constants.                                                      *)
(***************************************************************************)
max_iterations == 10
session_timeout == 30
n_results == 5
max_workers == 10

None == << >>
Some(x) == << x >>

Min(a, b) == IF a < b THEN a ELSE b

base_system_prompt == "You are Coeus"
MaxIterSentinel == "[Max tool iterations reached]"

VARIABLES
    tools,                  \* ToolRegistry._tools: name -> handler
    reg_log,                \* history: the registry calls since it was last empty
    max_history_turns,      \* Coeus.max_history_turns
    conversation_history,   \* Coeus.conversation_history
    rag_chunks,             \* DocumentRAG.collection.count()
    chunker,                \* the _chunk_text call in progress
    writers,                \* add_memory calls in progress on other threads
    fs_log,                 \* history: the calls of the filesystem tools
    collection,             \* ConversationMemory.collection, insertion order
    current_session_id,     \* ConversationMemory._current_session_id
    last_message_time,      \* ConversationMemory._last_message_time
    clock,                  \* datetime.now(), minutes
    reconstruction,         \* what get_conversation_by_id last returned
    pc,                     \* where the running turn is suspended
    method,                 \* the generator running: chat or chat_streaming
    ollama_tools,           \* chat's local: the tool definitions it sends
    queries,                \* history: similarity queries of the prompt assembly
    message,                \* chat's argument
    on_tool_call,           \* whether chat got a callback
    messages,               \* chat's local message list
    iteration,              \* completed passes of the for loop
    script,                 \* what the inference service answers this turn
    n_chat,                 \* non-streaming inference calls of the turn
    n_stream,               \* streaming inference calls of the turn
    events,                 \* what the turn emitted, in order
    tool_calls,             \* the batch of the current response
    tool_call_list,         \* the decoded batch handed to the dispatcher
    pending,                \* futures submitted and not completed
    invoked,                \* per call: the handler result of its future
    completed,              \* the calls in the order their futures completed
    results,                \* execute_tools_parallel's results dict
    full_response,          \* text accumulated from the stream
    chunk_pos,              \* chunks consumed from the stream
    ended,                  \* how the last turn ended
    batches,                \* history: the batches of the turn, in order
    appended,               \* history: every entry appended since the last clear
    pre,                    \* history: state when the turn began
    turns                   \* turns begun

turn_vars == << pc, method, ollama_tools, queries, message, on_tool_call, messages, iteration, script, n_chat,
                n_stream, events, tool_calls, tool_call_list, pending, invoked, completed,
                results, full_response, chunk_pos, ended, batches, pre, turns >>
memory_vars == << collection, current_session_id, last_message_time >>
vars == << tools, reg_log, reconstruction, max_history_turns, conversation_history, rag_chunks, chunker, writers, fs_log,
           collection, current_session_id, last_message_time, clock,
           pc, method, ollama_tools, queries, message, on_tool_call, messages, iteration,
           script, n_chat, n_stream, events, tool_calls, tool_call_list, pending, invoked, completed,
           results, full_response, chunk_pos, ended, batches, appended, pre,
           turns >>

(***************************************************************************)
(* Tool handlers.  A handler is a Python callable invoked with keyword     *)
(* arguments: it raises TypeError on a keyword it does not take, else      *)
(* it returns                                                              *)
(* a payload that depends on the tool, the handler registered and the      *)
(* arguments.                                                              *)
(***************************************************************************)
BuiltinTools == {"get_current_time", "calculate", "read_file"}
UnknownTool == "no_such_tool"
ArgVals == {"a1", "a2", "bad_kw"}

Ok(name, h, a) == [error |-> "", tool |-> name, handler |-> h, args |-> a]
Err(msg) == [error |-> msg, tool |-> "", handler |-> 0, args |-> ""]

HandlerRaises(h, a) == a = "bad_kw"

\* Tool.execute
execute(name, h, a) == Ok(name, h, a)

\* no try/except around the handler: its failure is lost and the call
\* reports a payload
execute_tool_NoExcept(name, a) ==
    IF name \notin DOMAIN tools
    THEN Err("Tool '" \o name \o "' not found")
    ELSE execute(name, tools[name], a)

\* an unregistered name reported with the generic message, without the name
execute_tool_GenericMessage(name, a) ==
    IF name \notin DOMAIN tools
    THEN Err("Tool not found")
    ELSE IF HandlerRaises(tools[name], a)
         THEN Err("unexpected keyword argument")
         ELSE execute(name, tools[name], a)

\* a name that is not registered is run by a default handler
execute_tool_RunsUnregistered(name, a) ==
    IF name \notin DOMAIN tools
    THEN execute(name, 0, a)
    ELSE IF HandlerRaises(tools[name], a)
         THEN Err("unexpected keyword argument")
         ELSE execute(name, tools[name], a)

\* ToolRegistry.execute_tool
execute_tool(name, a) ==
    IF name \notin DOMAIN tools
    THEN Err("Tool '" \o name \o "' not found")
    ELSE IF HandlerRaises(tools[name], a)
         THEN Err("unexpected keyword argument")
         ELSE execute(name, tools[name], a)

\* a call of add_tool or remove_tool
RegOp(op, name, h) == [op |-> op, name |-> name, handler |-> h]

\* register_all_builtin_tools: one add_tool per built-in tool
BuiltinRegistrations ==
    << RegOp("add", "calculate", 1),
       RegOp("add", "read_file", 1),
       RegOp("add", "get_current_time", 1) >>

\* the registry always reports tools
has_tools_Always == TRUE

\* ToolRegistry.has_tools
has_tools == DOMAIN tools # {}

\* ToolRegistry.get_ollama_tools: one definition per registered tool
get_ollama_tools == DOMAIN tools

(***************************************************************************)
(* Argument blobs.  A call's arguments arrive as a mapping or as a         *)
(* serialized string; json.loads decodes the string or raises.             *)
(***************************************************************************)
AsDict(a) == [is_str |-> FALSE, text |-> a]
AsJson(a) == [is_str |-> TRUE, text |-> "json:" \o a]
Undecodable == [is_str |-> TRUE, text |-> "{bad"]

Decodes(arguments) ==
    ~arguments.is_str \/ \E a \in ArgVals : AsJson(a) = arguments

json_loads(text) == CHOOSE a \in ArgVals : AsJson(a).text = text

\* lines 75-77 of _process_tool_calls
DecodeArgs(arguments) ==
    IF arguments.is_str THEN json_loads(arguments.text) ELSE arguments.text

\* json.dumps(result, default=str)
json_dumps(r) ==
    IF r.error # ""
    THEN "{error: " \o r.error \o "}"
    ELSE "{" \o r.tool \o "#" \o ToString(r.handler) \o "(" \o r.args \o ")}"

Call(name, arguments) == [name |-> name, arguments |-> arguments]

(***************************************************************************)
(* Rolling history (Coeus._add_to_history).                                *)
(***************************************************************************)
Entry(role, content) == [role |-> role, content |-> content]

\* Python's s[start:] for a possibly negative start
PySliceFrom(s, start) ==
    LET n == Len(s)
        st == IF start < 0
              THEN (IF n + start < 0 THEN 0 ELSE n + start)
              ELSE Min(start, n)
    IN SubSeq(s, st + 1, n)

HistoryOverCap(h, mht) == Len(h) > mht * 2

HistoryWindow(h, mht) == PySliceFrom(h, (-mht) * 2)

add_to_history(h, mht, role, content) ==
    LET h2 == Append(h, Entry(role, content))
    IN IF HistoryOverCap(h2, mht) THEN HistoryWindow(h2, mht) ELSE h2

(***************************************************************************)
(* Conversation memory (ConversationMemory).  A session id is the minting  *)
(* time followed by a random suffix.                                       *)
(***************************************************************************)
Suffixes == 1..MaxSuffix

generate_session_id(now, sfx) == << now, sfx >>

\* the comparison made inclusive: a gap equal to the timeout rolls over
SessionTimedOut_Inclusive(last, now) ==
    /\ last # None
    /\ now - last[1] >= session_timeout

\* a manager that has recorded nothing counts as timed out
SessionTimedOut_UnsetExpires(last, now) ==
    \/ last = None
    \/ now - last[1] > session_timeout

\* _check_session_timeout: whether a new session starts
SessionTimedOut(last, now) ==
    /\ last # None
    /\ now - last[1] > session_timeout

check_session_timeout(sid, last, now, sfx) ==
    IF SessionTimedOut(last, now) THEN generate_session_id(now, sfx) ELSE sid

\* _get_session_message_count
\* the records of every session are counted
get_session_message_count_AllSessions(coll, sid) == Len(coll)

\* _get_session_message_count: the records stored under the session id
get_session_message_count(coll, sid) ==
    Cardinality({i \in 1..Len(coll) : coll[i].session_id = sid})

MemoryRecord(coll, sid, now, user, assistant) ==
    [session_id |-> sid,
     timestamp |-> now,
     message_index |-> get_session_message_count(coll, sid),
     user_message |-> user,
     assistant_response |-> assistant]

\* add_memory, called with no explicit session id
add_memory(user, assistant, sfx) ==
    LET sid == check_session_timeout(current_session_id, last_message_time,
                                     clock, sfx)
    IN /\ current_session_id' = sid
       /\ collection' = Append(collection,
                               MemoryRecord(collection, sid, clock, user, assistant))
       /\ last_message_time' = Some(clock)

(***************************************************************************)
(* Document chunking (DocumentRAG._chunk_text) and concurrent writers of   *)
(* the memory store.  The chunker holds the chunk_size and chunk_overlap   *)
(* of the DocumentRAG in use and the number of words of the text.          *)
(***************************************************************************)
ChunkerIdle ==
    [phase |-> "idle", n |-> 0, size |-> 0, overlap |-> 0, start |-> 0,
     chunks |-> << >>]

\* the end of a chunk is not cut at the end of the text
Chunk_EndUnclamped(c) ==
    [chunk_index |-> Len(c.chunks),
     start_word |-> c.start,
     end_word |-> c.start + c.size]

\* lines 57-63: the chunk appended by one pass of the loop
Chunk(c) ==
    [chunk_index |-> Len(c.chunks),
     start_word |-> c.start,
     end_word |-> Min(c.start + c.size, c.n)]

\* the start position moves by the chunk size alone
ChunkAdvance_IgnoresOverlap(c) == c.start + c.size

\* line 65: start += self.chunk_size - self.chunk_overlap
ChunkAdvance(c) == c.start + c.size - c.overlap

\* line 52: the loop condition
ChunkLoopContinues(c) == c.start < c.n

Writers == 1..MaxWriters

WriterIdle ==
    [phase |-> "idle",
     record |-> [session_id |-> << >>, timestamp |-> 0, message_index |-> 0,
                 user_message |-> "", assistant_response |-> ""]]

(***************************************************************************)
(* Reconstruction of a session (get_conversation_by_id).  The store        *)
(* returns the matching records in an order of its own; timestamps are     *)
(* ISO strings of one format, whose string order is their time order.      *)
(***************************************************************************)
\* the dict built for one fetched record, lines 134-141
ConversationMessage(r) ==
    [content |-> "User: " \o r.user_message \o "\nAssistant: " \o r.assistant_response,
     user_message |-> r.user_message,
     assistant_response |-> r.assistant_response,
     timestamp |-> r.timestamp,
     message_index |-> r.message_index]

\* the sort key of line 144, compared as Python compares tuples
KeyLess(a, b) ==
    \/ a.timestamp < b.timestamp
    \/ a.timestamp = b.timestamp /\ a.message_index < b.message_index

\* list.sort is stable: x goes after every element whose key is not greater
RECURSIVE InsertByKey(_, _)
InsertByKey(x, sorted) ==
    IF sorted = << >> THEN << x >>
    ELSE IF KeyLess(x, Head(sorted))
         THEN << x >> \o sorted
         ELSE << Head(sorted) >> \o InsertByKey(x, Tail(sorted))

\* the fetched messages are returned as the store gave them
SortByKey_Unsorted(ms) == ms

RECURSIVE SortByKey(_)
SortByKey(ms) ==
    IF ms = << >> THEN << >>
    ELSE InsertByKey(ms[Len(ms)], SortByKey(SubSeq(ms, 1, Len(ms) - 1)))

\* a filter that matches nothing returns every record
Tagged_AllWhenNone(coll, conv_id) ==
    LET hit == {i \in 1..Len(coll) : coll[i].session_id = conv_id}
    IN IF hit = {} THEN 1..Len(coll) ELSE hit

\* collection.get(where={"session_id": conv_id}): the positions of the
\* records tagged conv_id
Tagged(coll, conv_id) == {i \in 1..Len(coll) : coll[i].session_id = conv_id}

\* the orders in which the store may return a set of records
Orders(S) ==
    { f \in [1..Cardinality(S) -> S] : \A i, j \in DOMAIN f : f[i] = f[j] => i = j }

(***************************************************************************)
(* Context assembly (Coeus._build_system_prompt).  A retrieval returns     *)
(* min(n_results, count) hits; a block is formatted from its hits.         *)
(***************************************************************************)
search_count(count) == IF count = 0 THEN 0 ELSE Min(n_results, count)

format_context_for_prompt(hits) ==
    IF hits = 0 THEN ""
    ELSE "Relevant document excerpts: " \o ToString(hits)

format_memories_for_prompt(hits) ==
    IF hits = 0 THEN ""
    ELSE "Relevant past conversations: " \o ToString(hits)

\* a similarity query: collection.query on a store holding count records
Query(store, count) ==
    [store |-> store, count |-> count, hits |-> Min(n_results, count)]

\* search_memories queries whatever the store holds
prompt_queries_Unguarded ==
    (IF rag_chunks > 0 /\ rag_chunks # 0
     THEN << Query("documents", rag_chunks) >> ELSE << >>)
    \o << Query("memory", Len(collection)) >>

\* the queries _build_system_prompt issues, in order: search_documents behind
\* get_chunk_count() > 0 and its own count check, search_memories behind
\* its count check
prompt_queries ==
    (IF rag_chunks > 0 /\ rag_chunks # 0
     THEN << Query("documents", rag_chunks) >> ELSE << >>)
    \o (IF Len(collection) # 0
        THEN << Query("memory", Len(collection)) >> ELSE << >>)

\* the memory block comes before the document block
build_system_prompt_MemoryFirst ==
    LET rag_context == format_context_for_prompt(search_count(rag_chunks))
        memory_context == format_memories_for_prompt(search_count(Len(collection)))
        p1 == IF memory_context # ""
              THEN base_system_prompt \o "\n\n" \o memory_context
              ELSE base_system_prompt
    IN IF rag_chunks > 0 /\ rag_context # "" THEN p1 \o "\n\n" \o rag_context ELSE p1

\* the block headers are appended even when a retrieval found nothing
build_system_prompt_AlwaysBlocks ==
    base_system_prompt
       \o "\n\n" \o format_context_for_prompt(search_count(rag_chunks))
       \o "\n\n" \o format_memories_for_prompt(search_count(Len(collection)))

build_system_prompt ==
    LET rag_context == format_context_for_prompt(search_count(rag_chunks))
        p1 == IF rag_chunks > 0 /\ rag_context # ""
              THEN base_system_prompt \o "\n\n" \o rag_context
              ELSE base_system_prompt
        memory_context == format_memories_for_prompt(search_count(Len(collection)))
    IN IF memory_context # "" THEN p1 \o "\n\n" \o memory_context ELSE p1

(***************************************************************************)
(* Messages of a turn and the events it emits.                             *)
(***************************************************************************)
Msg(role, content, tcs) == [role |-> role, content |-> content, tool_calls |-> tcs]

HistoryMsgs(h) == [i \in 1..Len(h) |-> Msg(h[i].role, h[i].content, << >>)]

ToolCallEvent(c) == [type |-> "tool_call", name |-> c.name,
                     arguments |-> c.arguments, text |-> ""]
ContentEvent(text) == [type |-> "content", name |-> "",
                       arguments |-> AsDict(""), text |-> text]

ContentEvents == SelectSeq(events, LAMBDA e : e.type = "content")

\* the default of results.get in _process_tool_calls
ResultFor(res, name) ==
    IF name \in DOMAIN res THEN res[name] ELSE Err("Tool not found")

\* the messages grouped by role: every call first, every result after
Pairs_Grouped(calls, res) ==
    [i \in 1..Len(calls) |-> Msg("assistant", "", << calls[i] >>)]
    \o [i \in 1..Len(calls) |->
           Msg("tool", json_dumps(ResultFor(res, calls[i].name)), << >>)]

\* every call is paired with the result of its own execution
Pairs_OwnResult(calls, res) ==
    [i \in 1..(2 * Len(calls)) |->
        LET c == calls[(i + 1) \div 2]
        IN IF i % 2 = 1
           THEN Msg("assistant", "", << c >>)
           ELSE Msg("tool", json_dumps(execute_tool(c.name, DecodeArgs(c.arguments))),
                    << >>)]

\* the pairs of a batch laid out from its last call to its first
Pairs_Reversed(calls, res) ==
    [i \in 1..(2 * Len(calls)) |->
        LET c == calls[Len(calls) + 1 - ((i + 1) \div 2)]
        IN IF i % 2 = 1
           THEN Msg("assistant", "", << c >>)
           ELSE Msg("tool", json_dumps(ResultFor(res, c.name)), << >>)]

\* lines 82-95 of _process_tool_calls: one (assistant, tool) pair per call
RECURSIVE Pairs(_, _)
Pairs(calls, res) ==
    IF calls = << >> THEN << >>
    ELSE << Msg("assistant", "", << Head(calls) >>),
            Msg("tool", json_dumps(ResultFor(res, Head(calls).name)), << >>) >>
         \o Pairs(Tail(calls), res)

\* the loop bound off by one: an eleventh pass
LoopContinues_OneMore(it) == it <= max_iterations

\* the loop gives up one pass early
LoopContinues_OneLess(it) == it < max_iterations - 1

\* line 110: whether the for loop has another pass
LoopContinues(it) == it < max_iterations

(***************************************************************************)
(* The inference service.  Within a turn it answers the k-th call with the *)
(* k-th response of a script and repeats the script's last response.       *)
(***************************************************************************)
Resp(kind, calls, content, chunks) ==
    [kind |-> kind, calls |-> calls, content |-> content, chunks |-> chunks]

CallSet ==
    { Call("get_current_time", AsDict("a1")),
      Call("get_current_time", AsDict("a2")),
      Call("calculate", AsDict("bad_kw")),
      Call("read_file", AsJson("a1")),
      Call(UnknownTool, AsDict("a1")),
      Call("read_file", Undecodable) }

\* the calls of the turn-level exploration: one that succeeds, one whose
\* handler raises, one whose arguments do not decode
FewCalls ==
    { Call("get_current_time", AsDict("a1")),
      Call("calculate", AsDict("bad_kw")),
      Call("read_file", Undecodable) }

SeqsUpTo(S, n) == UNION { [1..k -> S] : k \in 1..n }

Batches == SeqsUpTo(CallSet, MaxBatch)
SingleCallBatches == SeqsUpTo(FewCalls, 1)
Contents == {"", "Hello"}
ChunkSeqs == { << >>, << "He" >>, << "He", "llo" >> }

ToolCallResps(bs) == { Resp("tool_calls", b, "", << >>) : b \in bs }
LastResps == { Resp("final", << >>, c, << >>) : c \in Contents }
                \cup { Resp("error", << >>, "", << >>) }

\* the scripts explored: fewer than n batches followed by a final answer or
\* an error, or one batch on every call
ScriptsOver(bs, n) ==
    { << r >> : r \in ToolCallResps(bs) }
        \cup { << l >> : l \in LastResps }
        \cup UNION { { Append(p, l) : p \in [1..k -> ToolCallResps(bs)], l \in LastResps } :
                       k \in 1..(n - 1) }

StreamScripts ==
    { << Resp(k, << >>, "", ch) >> : k \in {"stream", "stream_error"}, ch \in ChunkSeqs }

ResponseAt(k) == script[Min(k, Len(script))]

(***************************************************************************)
(* Initial state: a freshly constructed Coeus with the built-in tools      *)
(* registered, an empty history and empty stores.                          *)
(***************************************************************************)
NoResp == Resp("none", << >>, "", << >>)

Snapshot == [history |-> conversation_history,
             collection |-> collection,
             session_id |-> current_session_id,
             last |-> last_message_time]

Init ==
    /\ tools = [n \in BuiltinTools |-> 1]
    /\ reg_log = BuiltinRegistrations
    /\ max_history_turns \in 0..MaxHistoryTurns
    /\ conversation_history = << >>
    /\ rag_chunks = 0
    /\ chunker = ChunkerIdle
    /\ writers = [w \in Writers |-> WriterIdle]
    /\ fs_log = << >>
    /\ collection = << >>
    /\ \E sfx \in Suffixes : current_session_id = generate_session_id(0, sfx)
    /\ last_message_time = None
    /\ clock = 0
    /\ reconstruction = None
    /\ pc = "idle"
    /\ method = ""
    /\ ollama_tools = None
    /\ queries = << >>
    /\ message = ""
    /\ on_tool_call = FALSE
    /\ messages = << >>
    /\ iteration = 0
    /\ script = << NoResp >>
    /\ n_chat = 0
    /\ n_stream = 0
    /\ events = << >>
    /\ tool_calls = << >>
    /\ tool_call_list = << >>
    /\ pending = {}
    /\ invoked = << >>
    /\ completed = << >>
    /\ results = << >>
    /\ full_response = ""
    /\ chunk_pos = 0
    /\ ended = "none"
    /\ batches = << >>
    /\ appended = << >>
    /\ pre = Snapshot
    /\ turns = 0

(***************************************************************************)
(* Coeus.chat and Coeus.chat_streaming up to their first inference call:   *)
(* lines 100-108 and 151-156.  d is the wall-clock time since the last     *)
(* command.                                                                *)
(***************************************************************************)
BeginTurn(meth, msg, d, scr, cb, use_tools) ==
    LET h == add_to_history(conversation_history, max_history_turns, "user", msg)
    IN /\ clock' = clock + d
       /\ conversation_history' = h
       /\ appended' = Append(appended, Entry("user", msg))
       /\ messages' = << Msg("system", build_system_prompt, << >>) >> \o HistoryMsgs(h)
       /\ message' = msg
       /\ on_tool_call' = cb
       /\ script' = scr
       /\ method' = meth
       /\ ollama_tools' = IF use_tools THEN Some(get_ollama_tools) ELSE None
       /\ queries' = prompt_queries
       /\ pc' = IF use_tools THEN "call_model" ELSE "call_stream"
       /\ iteration' = 0
       /\ n_chat' = 0
       /\ n_stream' = 0
       /\ events' = << >>
       /\ tool_calls' = << >>
       /\ tool_call_list' = << >>
       /\ pending' = {}
       /\ invoked' = << >>
       /\ completed' = << >>
       /\ results' = << >>
       /\ full_response' = ""
       /\ chunk_pos' = 0
       /\ ended' = "none"
       /\ batches' = << >>
       /\ pre' = Snapshot
       /\ turns' = turns + 1
       /\ UNCHANGED << tools, reg_log, reconstruction, max_history_turns,
                       rag_chunks, chunker, writers, fs_log, memory_vars >>

chat(msgs, gaps, scripts, cbs, max_turns) ==
    /\ pc = "idle"
    /\ chunker.phase = "idle"
    /\ turns < max_turns
    /\ \E msg \in msgs, d \in gaps, cb \in cbs :
         \E scr \in (IF has_tools THEN scripts ELSE StreamScripts) :
            BeginTurn("chat", msg, d, scr, cb, has_tools)

chat_streaming(msgs, gaps, max_turns) ==
    /\ pc = "idle"
    /\ chunker.phase = "idle"
    /\ turns < max_turns
    /\ \E msg \in msgs, d \in gaps, scr \in StreamScripts :
            BeginTurn("chat_streaming", msg, d, scr, FALSE, FALSE)

(***************************************************************************)
(* The non-streaming inference call of chat, lines 111-146.                *)
(***************************************************************************)
loop_vars == << iteration, messages, message, on_tool_call, script, n_stream,
                chunk_pos, pre, turns, method, ollama_tools, queries >>
env_vars == << tools, reg_log, reconstruction, max_history_turns, rag_chunks, chunker, writers, fs_log,
              clock >>

\* the exception is swallowed and the call is issued again
ModelRaises_Retries ==
    /\ pc = "call_model"
    /\ ResponseAt(n_chat + 1).kind = "error"
    /\ n_chat < max_iterations
    /\ n_chat' = n_chat + 1
    /\ UNCHANGED << env_vars, loop_vars, memory_vars, conversation_history,
                    appended, events, tool_calls, tool_call_list, pending,
                    invoked, completed, results, full_response, batches,
                    ended, pc >>

\* ollama.chat raises: the exception leaves the generator
ModelRaises ==
    /\ pc = "call_model"
    /\ ResponseAt(n_chat + 1).kind = "error"
    /\ n_chat' = n_chat + 1
    /\ ended' = "failed"
    /\ pc' = "returned"
    /\ UNCHANGED << env_vars, loop_vars, memory_vars, conversation_history,
                    appended, events, tool_calls, tool_call_list, pending,
                    invoked, completed, results, full_response, batches >>

\* the response carries no tool calls, lines 141-146
ModelReturnsFinal ==
    /\ pc = "call_model"
    /\ ResponseAt(n_chat + 1).kind = "final"
    /\ n_chat' = n_chat + 1
    /\ LET content == ResponseAt(n_chat + 1).content
       IN /\ full_response' = content
          /\ IF content # ""
             THEN /\ events' = Append(events, ContentEvent(content))
                  /\ pc' = "yield_content"
                  /\ ended' = ended
             ELSE /\ events' = events
                  /\ pc' = "returned"
                  /\ ended' = "done"
    /\ UNCHANGED << env_vars, loop_vars, memory_vars, conversation_history,
                    appended, tool_calls, tool_call_list, pending, invoked, completed,
                    results, batches >>

\* the callback is told of the first call of a batch only
Notifications_FirstOnly(calls) == << ToolCallEvent(calls[1]) >>

\* lines 134-136: on_tool_call(name, arguments) for each call, in order
Notifications(calls) == [i \in 1..Len(calls) |-> ToolCallEvent(calls[i])]

\* the response carries tool calls whose arguments all decode: lines 133-138,
\* 71-78 and the submit loop of execute_tools_parallel, lines 87-97
ModelReturnsToolCalls ==
    /\ pc = "call_model"
    /\ ResponseAt(n_chat + 1).kind = "tool_calls"
    /\ LET calls == ResponseAt(n_chat + 1).calls
       IN /\ \A i \in 1..Len(calls) : Decodes(calls[i].arguments)
          /\ tool_calls' = calls
          /\ batches' = Append(batches, calls)
          /\ events' = IF on_tool_call THEN events \o Notifications(calls) ELSE events
          /\ tool_call_list' =
                [i \in 1..Len(calls) |->
                    [name |-> calls[i].name,
                     arguments |-> DecodeArgs(calls[i].arguments)]]
          /\ pending' = 1..Len(calls)
    /\ n_chat' = n_chat + 1
    /\ invoked' = << >>
    /\ completed' = << >>
    /\ results' = << >>
    /\ pc' = "dispatch"
    /\ UNCHANGED << env_vars, loop_vars, memory_vars, conversation_history,
                    appended, full_response, ended >>

\* the decoding failure becomes the {error} result of every call of the
\* batch and the loop goes on
ModelReturnsMalformed_AsErrorResult ==
    /\ pc = "call_model"
    /\ ResponseAt(n_chat + 1).kind = "tool_calls"
    /\ LET calls == ResponseAt(n_chat + 1).calls
       IN /\ \E i \in 1..Len(calls) : ~Decodes(calls[i].arguments)
          /\ tool_calls' = calls
          /\ batches' = Append(batches, calls)
          /\ messages' = messages \o
                [i \in 1..(2 * Len(calls)) |->
                    IF i % 2 = 1
                    THEN Msg("assistant", "", << calls[(i + 1) \div 2] >>)
                    ELSE Msg("tool", json_dumps(Err("Invalid arguments")), << >>)]
          /\ events' = (IF on_tool_call THEN events \o Notifications(calls) ELSE events)
                \o (IF LoopContinues(iteration + 1) THEN << >>
                    ELSE << ContentEvent(MaxIterSentinel) >>)
    /\ n_chat' = n_chat + 1
    /\ iteration' = iteration + 1
    /\ pc' = IF LoopContinues(iteration + 1) THEN "call_model" ELSE "yield_sentinel"
    /\ UNCHANGED << env_vars, memory_vars, conversation_history, appended,
                    method, ollama_tools, queries, message, on_tool_call, script,
                    n_stream, chunk_pos, pre, turns, tool_call_list, pending,
                    invoked, completed, results, full_response, ended >>

\* the calls before the first undecodable one are submitted before the
\* decoding failure is raised
ModelReturnsMalformed_DispatchesPrefix ==
    /\ pc = "call_model"
    /\ ResponseAt(n_chat + 1).kind = "tool_calls"
    /\ LET calls == ResponseAt(n_chat + 1).calls
       IN /\ \E i \in 1..Len(calls) : ~Decodes(calls[i].arguments)
          /\ tool_calls' = calls
          /\ batches' = Append(batches, calls)
          /\ events' = IF on_tool_call THEN events \o Notifications(calls) ELSE events
          /\ LET k == CHOOSE i \in 1..Len(calls) :
                         /\ ~Decodes(calls[i].arguments)
                         /\ \A j \in 1..(i - 1) : Decodes(calls[j].arguments)
             IN /\ invoked' = [i \in 1..(k - 1) |->
                                  execute_tool(calls[i].name, DecodeArgs(calls[i].arguments))]
                /\ completed' = [i \in 1..(k - 1) |-> i]
    /\ n_chat' = n_chat + 1
    /\ ended' = "failed"
    /\ pc' = "returned"
    /\ UNCHANGED << env_vars, loop_vars, memory_vars, conversation_history,
                    appended, tool_call_list, pending, results, full_response >>

\* the response carries a call whose argument blob json.loads rejects:
\* line 77 raises before anything is dispatched
ModelReturnsMalformed ==
    /\ pc = "call_model"
    /\ ResponseAt(n_chat + 1).kind = "tool_calls"
    /\ LET calls == ResponseAt(n_chat + 1).calls
       IN /\ \E i \in 1..Len(calls) : ~Decodes(calls[i].arguments)
          /\ tool_calls' = calls
          /\ batches' = Append(batches, calls)
          /\ events' = IF on_tool_call THEN events \o Notifications(calls) ELSE events
    /\ n_chat' = n_chat + 1
    /\ ended' = "failed"
    /\ pc' = "returned"
    /\ UNCHANGED << env_vars, loop_vars, memory_vars, conversation_history,
                    appended, tool_call_list, pending, invoked, completed, results,
                    full_response >>

(***************************************************************************)
(* ToolRegistry.execute_tools_parallel, lines 99-104: the futures complete *)
(* in any order; each completion stores the future's result under the      *)
(* tool's name.                                                            *)
(***************************************************************************)
\* every submitted call is started at once
Started_All == 1..Len(tool_call_list)

\* ThreadPoolExecutor(max_workers=10): the submitted calls are started in
\* submission order, the first max_workers at once and each later one when
\* a worker has finished a call
Started == 1..Min(Len(tool_call_list), max_workers + Len(completed))

\* the calls whose handler is executing
Running == pending \cap Started

Oldest(S) == CHOOSE x \in S : \A y \in S : x <= y
Newest(S) == CHOOSE x \in S : \A y \in S : x >= y

Put(f, k, v) == [x \in DOMAIN f \cup {k} |-> IF x = k THEN v ELSE f[x]]

\* the first result stored under a name is kept
StoreResult_KeepFirst(res, name, r) ==
    IF name \in DOMAIN res THEN res ELSE Put(res, name, r)

StoreResult(res, name, r) == Put(res, name, r)

HandlerCompletes(i) ==
    /\ pc = "dispatch"
    /\ i \in Running
    /\ LET c == tool_call_list[i]
           r == execute_tool(c.name, c.arguments)
       IN /\ invoked' = Put(invoked, i, r)
          /\ results' = StoreResult(results, c.name, r)
    /\ pending' = pending \ {i}
    /\ completed' = Append(completed, i)
    /\ UNCHANGED << env_vars, loop_vars, memory_vars, conversation_history,
                    appended, n_chat, events, tool_calls, tool_call_list,
                    full_response, ended, batches, pc >>

\* the dispatcher returns without waiting for the futures still running
ReassembleBatch_NoJoin ==
    /\ pc = "dispatch"
    /\ messages' = messages \o Pairs(tool_calls, results)
    /\ iteration' = iteration + 1
    /\ IF LoopContinues(iteration + 1)
       THEN /\ pc' = "call_model"
            /\ events' = events
       ELSE /\ pc' = "yield_sentinel"
            /\ events' = Append(events, ContentEvent(MaxIterSentinel))
    /\ UNCHANGED << env_vars, memory_vars, conversation_history, appended,
                    method, ollama_tools, queries,
                    message, on_tool_call, script, n_chat, n_stream, chunk_pos,
                    pre, turns, tool_calls, tool_call_list, pending, invoked, completed,
                    results, full_response, ended, batches >>

\* the pairs are appended to the rolling history as well
ReassembleBatch_IntoHistory ==
    /\ pc = "dispatch"
    /\ pending = {}
    /\ messages' = messages \o Pairs(tool_calls, results)
    /\ conversation_history' = conversation_history \o
          [i \in 1..(2 * Len(tool_calls)) |->
              Entry(Pairs(tool_calls, results)[i].role,
                    Pairs(tool_calls, results)[i].content)]
    /\ iteration' = iteration + 1
    /\ IF LoopContinues(iteration + 1)
       THEN /\ pc' = "call_model"
            /\ events' = events
       ELSE /\ pc' = "yield_sentinel"
            /\ events' = Append(events, ContentEvent(MaxIterSentinel))
    /\ UNCHANGED << env_vars, memory_vars, appended,
                    method, ollama_tools, queries,
                    message, on_tool_call, script, n_chat, n_stream, chunk_pos,
                    pre, turns, tool_calls, tool_call_list, pending, invoked, completed,
                    results, full_response, ended, batches >>

\* all futures are done: lines 82-97 append the pairs, line 139 continues
\* the loop, line 148 yields the sentinel when the loop is exhausted
ReassembleBatch ==
    /\ pc = "dispatch"
    /\ pending = {}
    /\ messages' = messages \o Pairs(tool_calls, results)
    /\ iteration' = iteration + 1
    /\ IF LoopContinues(iteration + 1)
       THEN /\ pc' = "call_model"
            /\ events' = events
       ELSE /\ pc' = "yield_sentinel"
            /\ events' = Append(events, ContentEvent(MaxIterSentinel))
    /\ UNCHANGED << env_vars, memory_vars, conversation_history, appended,
                    method, ollama_tools, queries,
                    message, on_tool_call, script, n_chat, n_stream, chunk_pos,
                    pre, turns, tool_calls, tool_call_list, pending, invoked, completed,
                    results, full_response, ended, batches >>

\* lines 126-127, 144-145, 164-165
RecordExchange(text, sfx) ==
    /\ conversation_history' =
          add_to_history(conversation_history, max_history_turns, "assistant", text)
    /\ appended' = Append(appended, Entry("assistant", text))
    /\ add_memory(message, text, sfx)

\* the cap treated as a normal completion: the sentinel is recorded
ResumeAfterSentinel_Records ==
    /\ pc = "yield_sentinel"
    /\ \E sfx \in Suffixes : RecordExchange(MaxIterSentinel, sfx)
    /\ pc' = "returned"
    /\ ended' = "cap"
    /\ UNCHANGED << env_vars, loop_vars, n_chat, events, tool_calls,
                    tool_call_list, pending, invoked, completed, results,
                    full_response, batches >>

\* the caller resumes the generator after the sentinel: chat returns
ResumeAfterSentinel ==
    /\ pc = "yield_sentinel"
    /\ pc' = "returned"
    /\ ended' = "cap"
    /\ UNCHANGED << env_vars, loop_vars, memory_vars, conversation_history,
                    appended, n_chat, events, tool_calls, tool_call_list,
                    pending, invoked, completed, results, full_response, batches >>

\* the caller resumes the generator after the final content, lines 144-146
ResumeAfterContent ==
    /\ pc = "yield_content"
    /\ \E sfx \in Suffixes : RecordExchange(full_response, sfx)
    /\ pc' = "returned"
    /\ ended' = "done"
    /\ UNCHANGED << env_vars, loop_vars, n_chat, events, tool_calls,
                    tool_call_list, pending, invoked, completed, results, full_response,
                    batches >>

(***************************************************************************)
(* The streaming inference call, lines 120-128 and 158-165.                *)
(***************************************************************************)
StreamOpens ==
    /\ pc = "call_stream"
    /\ n_stream' = n_stream + 1
    /\ pc' = "streaming"
    /\ UNCHANGED << env_vars, memory_vars, conversation_history, appended,
                    method, ollama_tools, queries,
                    iteration, messages, message, on_tool_call, script, n_chat,
                    chunk_pos, pre, turns, events, tool_calls, tool_call_list,
                    pending, invoked, completed, results, full_response, ended, batches >>

\* the accumulated text is replaced by the chunk just received
StreamChunk_KeepsLast ==
    /\ pc = "streaming"
    /\ chunk_pos < Len(script[1].chunks)
    /\ LET content == script[1].chunks[chunk_pos + 1]
       IN /\ full_response' = content
          /\ events' = Append(events, ContentEvent(content))
    /\ chunk_pos' = chunk_pos + 1
    /\ UNCHANGED << env_vars, memory_vars, conversation_history, appended,
                    method, ollama_tools, queries,
                    iteration, messages, message, on_tool_call, script, n_chat,
                    n_stream, pre, turns, tool_calls, tool_call_list, pending,
                    invoked, completed, results, ended, batches, pc >>

\* one chunk of the stream: lines 122-125 and 160-163
StreamChunk ==
    /\ pc = "streaming"
    /\ chunk_pos < Len(script[1].chunks)
    /\ LET content == script[1].chunks[chunk_pos + 1]
       IN /\ full_response' = full_response \o content
          /\ events' = Append(events, ContentEvent(content))
    /\ chunk_pos' = chunk_pos + 1
    /\ UNCHANGED << env_vars, memory_vars, conversation_history, appended,
                    method, ollama_tools, queries,
                    iteration, messages, message, on_tool_call, script, n_chat,
                    n_stream, pre, turns, tool_calls, tool_call_list, pending,
                    invoked, completed, results, ended, batches, pc >>

StreamRaises ==
    /\ pc = "streaming"
    /\ chunk_pos = Len(script[1].chunks)
    /\ script[1].kind = "stream_error"
    /\ pc' = "returned"
    /\ ended' = "failed"
    /\ UNCHANGED << env_vars, loop_vars, memory_vars, conversation_history,
                    appended, n_chat, events, tool_calls, tool_call_list,
                    pending, invoked, completed, results, full_response, batches >>

StreamEnds ==
    /\ pc = "streaming"
    /\ chunk_pos = Len(script[1].chunks)
    /\ script[1].kind = "stream"
    /\ \E sfx \in Suffixes : RecordExchange(full_response, sfx)
    /\ pc' = "returned"
    /\ ended' = "done"
    /\ UNCHANGED << env_vars, loop_vars, n_chat, events, tool_calls,
                    tool_call_list, pending, invoked, completed, results, full_response,
                    batches >>

(***************************************************************************)
(* The caller stops consuming: the generator, suspended at a yield (line   *)
(* 125, 143, 148 or 163), is closed or dropped.  GeneratorExit is raised   *)
(* at the yield and, with no try block around it, nothing after it runs.   *)
(***************************************************************************)
Suspended ==
    \/ pc \in {"yield_content", "yield_sentinel"}
    \/ pc = "streaming" /\ chunk_pos >= 1

\* closing the generator runs the statements after the yield
CallerStops_Finalizes ==
    /\ Suspended
    /\ \E sfx \in Suffixes : RecordExchange(full_response, sfx)
    /\ pc' = "returned"
    /\ ended' = "abandoned"
    /\ UNCHANGED << env_vars, loop_vars, n_chat, events, tool_calls,
                    tool_call_list, pending, invoked, completed, results, full_response,
                    batches >>

CallerStops ==
    /\ Suspended
    /\ pc' = "returned"
    /\ ended' = "abandoned"
    /\ UNCHANGED << env_vars, loop_vars, memory_vars, conversation_history,
                    appended, n_chat, events, tool_calls, tool_call_list,
                    pending, invoked, completed, results, full_response, batches >>

(***************************************************************************)
(* The generator is exhausted (or its exception has reached the caller):   *)
(* its frame, with every local of the turn, is gone.                       *)
(***************************************************************************)
TurnOver ==
    /\ pc = "returned"
    /\ pc' = "idle"
    /\ method' = ""
    /\ ollama_tools' = None
    /\ queries' = << >>
    /\ message' = ""
    /\ on_tool_call' = FALSE
    /\ messages' = << >>
    /\ iteration' = 0
    /\ script' = << NoResp >>
    /\ n_chat' = 0
    /\ n_stream' = 0
    /\ events' = << >>
    /\ tool_calls' = << >>
    /\ tool_call_list' = << >>
    /\ pending' = {}
    /\ invoked' = << >>
    /\ completed' = << >>
    /\ results' = << >>
    /\ full_response' = ""
    /\ chunk_pos' = 0
    /\ ended' = "none"
    /\ batches' = << >>
    /\ pre' = Snapshot
    /\ UNCHANGED << env_vars, memory_vars, conversation_history, appended, turns >>

(***************************************************************************)
(* Commands between turns.                                                 *)
(***************************************************************************)
\* Coeus.clear_history
clear_history ==
    /\ pc = "idle"
    /\ conversation_history' = << >>
    /\ appended' = << >>
    /\ pre' = [pre EXCEPT !.history = << >>]
    /\ UNCHANGED << env_vars, memory_vars, pc, method, ollama_tools, queries, message,
                    on_tool_call, messages,
                    iteration, script, n_chat, n_stream, events, tool_calls,
                    tool_call_list, pending, invoked, completed, results, full_response,
                    chunk_pos, ended, batches, turns >>

\* clearing the records also forgets the time of the last message
clear_memories_ForgetsLast ==
    /\ pc = "idle"
    /\ collection' = << >>
    /\ last_message_time' = None
    /\ pre' = [pre EXCEPT !.collection = << >>, !.last = None]
    /\ UNCHANGED << env_vars, current_session_id,
                    conversation_history, appended, pc, method, ollama_tools, queries,
                    message, on_tool_call, messages, iteration, script, n_chat, n_stream, events,
                    tool_calls, tool_call_list, pending, invoked, completed, results,
                    full_response, chunk_pos, ended, batches, turns >>

\* ConversationMemory.clear_memories
clear_memories ==
    /\ pc = "idle"
    /\ collection' = << >>
    /\ pre' = [pre EXCEPT !.collection = << >>]
    /\ UNCHANGED << env_vars, current_session_id, last_message_time,
                    conversation_history, appended, pc, method, ollama_tools, queries,
                    message, on_tool_call, messages, iteration, script, n_chat, n_stream, events,
                    tool_calls, tool_call_list, pending, invoked, completed, results,
                    full_response, chunk_pos, ended, batches, turns >>

\* ToolRegistry.clear_tools
clear_tools ==
    /\ pc = "idle"
    /\ tools' = << >>
    /\ reg_log' = << >>
    /\ UNCHANGED << max_history_turns, rag_chunks, chunker, writers, fs_log, clock, memory_vars,
                    reconstruction, conversation_history, appended, turn_vars >>

(***************************************************************************)
(* Document ingestion: DocumentRAG.add_document for a document not yet in  *)
(* the store, through the loop of _chunk_text.                             *)
(***************************************************************************)
rag_frame == << tools, reg_log, reconstruction, max_history_turns, writers, fs_log, clock,
               memory_vars, conversation_history, appended, turn_vars >>

\* add_document up to the first pass of the chunking loop, lines 151-178, 48-50
add_document(ns, sizes, overlaps) ==
    /\ pc = "idle"
    /\ chunker.phase = "idle"
    /\ rag_chunks < MaxRagChunks
    /\ \E n \in ns, size \in sizes, overlap \in overlaps :
          chunker' = [phase |-> "loop", n |-> n, size |-> size,
                      overlap |-> overlap, start |-> 0, chunks |-> << >>]
    /\ UNCHANGED << rag_chunks, rag_frame >>

\* one pass of the while loop, lines 52-65
ChunkStep ==
    /\ chunker.phase = "loop"
    /\ ChunkLoopContinues(chunker)
    /\ Len(chunker.chunks) < MaxChunks
    /\ chunker' = [chunker EXCEPT !.chunks = Append(@, Chunk(chunker)),
                                  !.start = ChunkAdvance(chunker)]
    /\ UNCHANGED << rag_chunks, rag_frame >>

\* the loop is left, line 67; add_document stores the chunks, lines 180-197
ChunkDone ==
    /\ chunker.phase = "loop"
    /\ ~ChunkLoopContinues(chunker)
    /\ rag_chunks' = rag_chunks + Len(chunker.chunks)
    /\ chunker' = ChunkerIdle
    /\ UNCHANGED rag_frame

\* DocumentRAG.clear_rag_database
clear_rag_database ==
    /\ pc = "idle"
    /\ chunker.phase = "idle"
    /\ rag_chunks' = 0
    /\ UNCHANGED << chunker, rag_frame >>

(***************************************************************************)
(* add_memory called from several threads: each call evaluates the         *)
(* record, its message_index included (lines 49-68), before the store's    *)
(* add takes effect (line 59) and the last-turn time is set (line 72).     *)
(***************************************************************************)
writer_frame == << tools, reg_log, reconstruction, max_history_turns, rag_chunks,
                  chunker, fs_log, clock, conversation_history, appended, turn_vars >>

\* the ordinal is counted when the record is inserted
WriterRecord_CountedAtInsert(w) ==
    [writers[w].record EXCEPT
        !.message_index =
            get_session_message_count(collection, writers[w].record.session_id)]

\* the record a writer inserts: the one it evaluated
WriterRecord(w) == writers[w].record

WriterCounts(w, users) ==
    /\ pc = "idle"
    /\ writers[w].phase = "idle"
    /\ Len(collection) + Cardinality({v \in Writers : writers[v].phase = "counted"})
          < MaxWrites
    /\ \E user \in users, sfx \in Suffixes :
          LET sid == check_session_timeout(current_session_id, last_message_time,
                                           clock, sfx)
          IN /\ current_session_id' = sid
             /\ writers' = [writers EXCEPT ![w] =
                   [phase |-> "counted",
                    record |-> MemoryRecord(collection, sid, clock, user, "Hello")]]
    /\ UNCHANGED << collection, last_message_time, writer_frame >>

WriterInserts(w) ==
    /\ pc = "idle"
    /\ writers[w].phase = "counted"
    /\ collection' = Append(collection, WriterRecord(w))
    /\ last_message_time' = Some(writers[w].record.timestamp)
    /\ writers' = [writers EXCEPT ![w] = WriterIdle]
    /\ UNCHANGED << current_session_id, writer_frame >>

\* the wall clock advances between calls
Tick(gaps) ==
    /\ pc = "idle"
    /\ clock < MaxWrites
    /\ \E d \in gaps : clock' = clock + d
    /\ UNCHANGED << tools, reg_log, reconstruction, max_history_turns, rag_chunks,
                    chunker, writers, fs_log, memory_vars, conversation_history, appended,
                    turn_vars >>

\* ConversationMemory.get_conversation_by_id
get_conversation_by_id(ids) ==
    /\ pc = "idle"
    /\ \E conv_id \in ids \cup {collection[i].session_id : i \in 1..Len(collection)} :
          \E fetched \in Orders(Tagged(collection, conv_id)) :
             reconstruction' =
                Some([conv_id |-> conv_id,
                      fetched |-> fetched,
                      messages |->
                         IF fetched = << >> THEN << >>
                         ELSE SortByKey([k \in 1..Len(fetched) |->
                                            ConversationMessage(collection[fetched[k]])])])
    /\ UNCHANGED << tools, reg_log, max_history_turns, rag_chunks, chunker, writers, fs_log, clock,
                    memory_vars, conversation_history, appended, turn_vars >>

\* the existing definition of a name is kept
Register_KeepExisting(t, name, h) ==
    IF name \in DOMAIN t THEN t ELSE Put(t, name, h)

\* line 53 of add_tool: self._tools[name] = tool
Register(t, name, h) == Put(t, name, h)

\* lines 115-118 of remove_tool
Unregister(t, name) == [x \in DOMAIN t \ {name} |-> t[x]]

\* ToolRegistry.add_tool (Coeus.add_tool)
add_tool(names, handlers) ==
    /\ pc = "idle"
    /\ Len(reg_log) < MaxRegLog
    /\ \E name \in names, h \in handlers :
          /\ tools' = Register(tools, name, h)
          /\ reg_log' = Append(reg_log, RegOp("add", name, h))
    /\ UNCHANGED << max_history_turns, rag_chunks, chunker, writers, fs_log, clock, memory_vars,
                    reconstruction, conversation_history, appended, turn_vars >>

\* ToolRegistry.remove_tool
remove_tool(names) ==
    /\ pc = "idle"
    /\ Len(reg_log) < MaxRegLog
    /\ \E name \in names :
          /\ tools' = Unregister(tools, name)
          /\ reg_log' = Append(reg_log, RegOp("remove", name, 0))
    /\ UNCHANGED << max_history_turns, rag_chunks, chunker, writers, fs_log, clock, memory_vars,
                    reconstruction, conversation_history, appended, turn_vars >>

(***************************************************************************)
(* add_tool and remove_tool called from another thread while a batch is    *)
(* being dispatched.  A handler looks its tool up when it runs, so a call  *)
(* sees the registry as it is at some moment between its submission and    *)
(* its completion.                                                         *)
(***************************************************************************)
Mutations == Len(reg_log) - Len(BuiltinRegistrations)

add_tool_during_dispatch(names, handlers) ==
    /\ pc = "dispatch"
    /\ Mutations < MaxMutations
    /\ \E name \in names, h \in handlers :
          /\ tools' = Register(tools, name, h)
          /\ reg_log' = Append(reg_log, RegOp("add", name, h))
    /\ UNCHANGED << max_history_turns, rag_chunks, chunker, writers, fs_log, clock, memory_vars,
                    reconstruction, conversation_history, appended, turn_vars >>

remove_tool_during_dispatch(names) ==
    /\ pc = "dispatch"
    /\ Mutations < MaxMutations
    /\ \E name \in names :
          /\ name \in DOMAIN tools
          /\ tools' = Unregister(tools, name)
          /\ reg_log' = Append(reg_log, RegOp("remove", name, 0))
    /\ UNCHANGED << max_history_turns, rag_chunks, chunker, writers, fs_log, clock, memory_vars,
                    reconstruction, conversation_history, appended, turn_vars >>

(***************************************************************************)
(* The filesystem tools (register_filesystem_tools).  A path is the        *)
(* sequence of its components below the root, a component a sequence of    *)
(* characters; str(path) is the sequence of characters of its text.  The   *)
(* file system holds the base directory /app with a file f, its sibling    *)
(* /app2 with a file f, and /etc with a file f; it holds no symbolic link. *)
(***************************************************************************)
Name_app == << "a", "p", "p" >>
Name_app2 == << "a", "p", "p", "2" >>
Name_etc == << "e", "t", "c" >>
Name_f == << "f" >>
DotDot == << ".", "." >>

\* base = Path(base_path), the directory /app
base_dir == << Name_app >>

Dirs == { << >>, << Name_app >>, << Name_app2 >>, << Name_etc >> }
Files == { << Name_app, Name_f >>, << Name_app2, Name_f >>, << Name_etc, Name_f >> }

Rel(parts) == [absolute |-> FALSE, parts |-> parts]
Abs(parts) == [absolute |-> TRUE, parts |-> parts]

\* the path arguments of the calls explored
PathArgs ==
    { Rel(<< >>), Rel(<< Name_f >>), Rel(<< DotDot >>),
      Rel(<< DotDot, Name_app, Name_f >>),
      Rel(<< DotDot, Name_app2 >>), Rel(<< DotDot, Name_app2, Name_f >>),
      Rel(<< Name_app2, DotDot, Name_f >>),
      Rel(<< DotDot, Name_etc, Name_f >>), Rel(<< DotDot, DotDot, Name_f >>),
      Abs(<< Name_etc, Name_f >>), Abs(<< Name_app, Name_f >>),
      Abs(<< Name_app2, Name_f >>) }

\* base / path: an absolute right operand replaces the left one
PathJoin(b, arg) == IF arg.absolute THEN arg.parts ELSE b \o arg.parts

\* Path.resolve() without symbolic links: ".." drops the last component and
\* stays at the root
RECURSIVE Resolve(_, _)
Resolve(done, rest) ==
    IF rest = << >> THEN done
    ELSE IF Head(rest) = DotDot
         THEN Resolve(IF done = << >> THEN << >> ELSE SubSeq(done, 1, Len(done) - 1),
                      Tail(rest))
         ELSE Resolve(Append(done, Head(rest)), Tail(rest))

resolve(path) == Resolve(<< >>, path)

\* str(path): "/" before every component, "/" alone for the root
RECURSIVE PathText(_)
PathText(path) ==
    IF path = << >> THEN << >>
    ELSE << "/" >> \o Head(path) \o PathText(Tail(path))

str(path) == IF path = << >> THEN << "/" >> ELSE PathText(path)

\* str.startswith
startswith(text, prefix) ==
    /\ Len(prefix) <= Len(text)
    /\ SubSeq(text, 1, Len(prefix)) = prefix

\* safe_path, lines 41-46: the resolved path, or PermissionError
safe_path_allows(arg) ==
    startswith(str(resolve(PathJoin(base_dir, arg))), str(resolve(base_dir)))

parent(path) == IF path = << >> THEN << >> ELSE SubSeq(path, 1, Len(path) - 1)

\* one call of a filesystem tool: safe_path, then the accesses in touched;
\* every exception becomes the error result
FsCall(tool, arg, touched, succeeds) ==
    LET resolved == resolve(PathJoin(base_dir, arg))
        allowed == safe_path_allows(arg)
    IN /\ pc = "idle"
       /\ Len(fs_log) < MaxFsCalls
       /\ fs_log' = Append(fs_log,
              [tool |-> tool, arg |-> arg, resolved |-> resolved,
               touched |-> IF allowed THEN touched ELSE {},
               error |-> ~(allowed /\ succeeds)])
       /\ UNCHANGED << tools, reg_log, reconstruction, max_history_turns, rag_chunks,
                       chunker, writers, clock, memory_vars, conversation_history,
                       appended, turn_vars >>

\* read_file, lines 59-65
read_file ==
    \E arg \in PathArgs :
       LET file_path == resolve(PathJoin(base_dir, arg))
       IN FsCall("read_file", arg, {file_path}, file_path \in Files)

\* write_file, lines 82-89
write_file ==
    \E arg \in PathArgs :
       LET file_path == resolve(PathJoin(base_dir, arg))
       IN FsCall("write_file", arg, {parent(file_path), file_path},
                 file_path \notin Dirs /\ parent(file_path) \notin Files)

\* list_directory, lines 102-114
list_directory ==
    \E arg \in PathArgs :
       LET dir_path == resolve(PathJoin(base_dir, arg))
       IN FsCall("list_directory", arg, {dir_path}, dir_path \in Dirs)

\* file_exists, lines 127-138
file_exists ==
    \E arg \in PathArgs :
       LET file_path == resolve(PathJoin(base_dir, arg))
       IN FsCall("file_exists", arg, {file_path}, TRUE)

\* the session id is rotated and the last-turn time is kept
start_new_session_KeepsTime ==
    /\ pc = "idle"
    /\ \E sfx \in Suffixes :
          current_session_id' = generate_session_id(clock, sfx)
    /\ pre' = [pre EXCEPT !.session_id = current_session_id']
    /\ UNCHANGED << env_vars, collection, conversation_history, appended, pc,
                    method, ollama_tools, queries, message, on_tool_call,
                    messages, iteration, script, n_chat,
                    n_stream, events, tool_calls, tool_call_list, pending,
                    invoked, completed, results, full_response, chunk_pos, ended, batches,
                    turns, last_message_time >>

\* ConversationMemory.start_new_session
start_new_session ==
    /\ pc = "idle"
    /\ \E sfx \in Suffixes :
          current_session_id' = generate_session_id(clock, sfx)
    /\ last_message_time' = None
    /\ pre' = [pre EXCEPT !.session_id = current_session_id', !.last = None]
    /\ UNCHANGED << env_vars, collection, conversation_history, appended, pc,
                    method, ollama_tools, queries, message, on_tool_call, messages, iteration, script, n_chat,
                    n_stream, events, tool_calls, tool_call_list, pending,
                    invoked, completed, results, full_response, chunk_pos, ended, batches,
                    turns >>

(***************************************************************************)
(* Specifications.  Spec explores whole turns, one after another, over     *)
(* single-call batches; SpecDispatch one turn over every batch of          *)
(* CallSet; SpecSession sequences of short turns spread over time;         *)
(* SpecReconstruct recorded turns and reconstructions of their sessions;   *)
(* SpecRegistry the calls of the tool registry; SpecPrompt the assembly   *)
(* of the system prompt over filled and cleared stores; SpecChunk the      *)
(* chunking loop; SpecWriters concurrent callers of add_memory;            *)
(* SpecObserver one turn with and without a tool-call callback; SpecPool   *)
(* one batch larger than the worker pool; SpecConsumer a turn whose        *)
(* caller stops iterating; SpecFrame turns interleaved with the clearing   *)
(* and session operations; SpecConcurrent a dispatch interleaved with      *)
(* add_tool and remove_tool; SpecFiles the calls of the filesystem tools.  *)
(***************************************************************************)
UserMessages == {"q"}
Callbacks == {TRUE}

LoopStep ==
    \/ ModelRaises
    \/ ModelReturnsFinal
    \/ ModelReturnsToolCalls
    \/ ModelReturnsMalformed
    \/ \E i \in pending : HandlerCompletes(i)
    \/ ReassembleBatch
    \/ ResumeAfterSentinel
    \/ ResumeAfterContent
    \/ TurnOver

StreamStep ==
    \/ StreamOpens
    \/ StreamChunk
    \/ StreamRaises
    \/ StreamEnds

Gaps == {0, 31}

TurnScripts == ScriptsOver(SingleCallBatches, MaxScript)

Next ==
    \/ chat(UserMessages, Gaps, TurnScripts, Callbacks, MaxTurns)
    \/ chat_streaming(UserMessages, Gaps, MaxTurns)
    \/ clear_history
    \/ clear_memories
    \/ clear_tools
    \/ LoopStep
    \/ StreamStep

Spec == Init /\ [][Next]_vars

\* one batch, then a final answer or an error
DispatchScripts ==
    { << r, l >> : r \in ToolCallResps(Batches), l \in LastResps }

NextDispatch ==
    \/ chat(UserMessages, {0}, DispatchScripts, Callbacks, 1)
    \/ ModelRaises
    \/ ModelReturnsFinal
    \/ ModelReturnsToolCalls
    \/ ModelReturnsMalformed
    \/ \E i \in pending : HandlerCompletes(i)
    \/ ReassembleBatch
    \/ ResumeAfterContent
    \/ TurnOver

SpecDispatch == Init /\ [][NextDispatch]_vars

SessionGaps == {5, 30, 31}
SessionScripts == { << r >> : r \in LastResps }

NextSession ==
    \/ chat(UserMessages, SessionGaps, SessionScripts, Callbacks, MaxSessionTurns)
    \/ clear_history
    \/ clear_memories
    \/ start_new_session
    \/ ModelRaises
    \/ ModelReturnsFinal
    \/ ResumeAfterContent
    \/ TurnOver

SpecSession == Init /\ [][NextSession]_vars

\* reconstruction: recorded turns close in time, over several sessions
ReconGaps == {0, 5}
ReconScripts == { << Resp("final", << >>, "Hello", << >>) >> }
ReconIds == {current_session_id, generate_session_id(0 - 1, 1)}

NextReconstruct ==
    \/ chat(UserMessages, ReconGaps, ReconScripts, Callbacks, MaxSessionTurns)
    \/ ModelReturnsFinal
    \/ ResumeAfterContent
    \/ TurnOver
    \/ start_new_session
    \/ get_conversation_by_id(ReconIds)

SpecReconstruct == Init /\ [][NextReconstruct]_vars

\* prompt assembly: documents ingested with a valid chunking, turns, clears
PromptMessages == {"q", "what is new"}
PromptWords == {0, 2, 6}

NextPrompt ==
    \/ add_document(PromptWords, {2}, {1})
    \/ ChunkStep
    \/ ChunkDone
    \/ clear_rag_database
    \/ clear_memories
    \/ chat(PromptMessages, {0}, ReconScripts, Callbacks, MaxTurns)
    \/ ModelReturnsFinal
    \/ ResumeAfterContent
    \/ TurnOver

SpecPrompt == Init /\ [][NextPrompt]_vars

\* chunking under every small configuration of size and overlap
ChunkWords == 0..MaxWords
ChunkSizes == 0..MaxChunkSize
ChunkOverlaps == 0..(MaxChunkSize + 1)

NextChunk ==
    \/ add_document(ChunkWords, ChunkSizes, ChunkOverlaps)
    \/ ChunkStep
    \/ ChunkDone
    \/ clear_rag_database

SpecChunk == Init /\ [][NextChunk]_vars

FairChunk == SpecChunk /\ WF_vars(ChunkStep) /\ WF_vars(ChunkDone)

\* two threads recording exchanges into the same store
WriterUsers == {"q", "r"}

NextWriters ==
    \/ \E w \in Writers : WriterCounts(w, WriterUsers)
    \/ \E w \in Writers : WriterInserts(w)
    \/ Tick({1})

SpecWriters == Init /\ [][NextWriters]_vars

\* the registry alone: registrations under a built-in name and a new name
\* one turn over batches of up to MaxObserved calls and over successive
\* single-call batches, started with and without an on_tool_call callback
ObserverCallbacks == {TRUE, FALSE}
ObserverScripts ==
    ScriptsOver(SeqsUpTo(FewCalls, MaxObserved), 3) \cup TurnScripts

NextObserver ==
    \/ chat(UserMessages, {0}, ObserverScripts, ObserverCallbacks, 1)
    \/ ModelRaises
    \/ ModelReturnsFinal
    \/ ModelReturnsToolCalls
    \/ ModelReturnsMalformed
    \/ \E i \in pending : HandlerCompletes(i)
    \/ ReassembleBatch
    \/ ResumeAfterSentinel
    \/ ResumeAfterContent
    \/ TurnOver

SpecObserver == Init /\ [][NextObserver]_vars

\* one turn whose response is a batch of MaxPoolBatch calls of one tool; of
\* the running handlers the one started first or the one started last
\* completes next
PoolBatch == [i \in 1..MaxPoolBatch |-> Call("get_current_time", AsDict("a1"))]
PoolScripts ==
    { << Resp("tool_calls", PoolBatch, "", << >>),
         Resp("final", << >>, "Hello", << >>) >> }

NextPool ==
    \/ chat(UserMessages, {0}, PoolScripts, Callbacks, 1)
    \/ ModelReturnsToolCalls
    \/ /\ Running # {}
       /\ \E i \in {Oldest(Running), Newest(Running)} : HandlerCompletes(i)
    \/ ReassembleBatch
    \/ ModelReturnsFinal
    \/ ResumeAfterContent
    \/ TurnOver

SpecPool == Init /\ [][NextPool]_vars

\* turns whose caller may stop consuming at any yield
NextConsumer ==
    \/ chat(UserMessages, {0}, TurnScripts, Callbacks, MaxTurns)
    \/ chat_streaming(UserMessages, {0}, MaxTurns)
    \/ clear_tools
    \/ LoopStep
    \/ StreamStep
    \/ CallerStops

SpecConsumer == Init /\ [][NextConsumer]_vars

\* turns that complete, fail or hit the cap, spread over time, with every
\* command that reads or clears the stores between them
FrameGaps == {5, 31}
FrameScripts ==
    { << Resp("tool_calls", << Call("get_current_time", AsDict("a1")) >>, "", << >>) >>,
      << Resp("tool_calls", << Call("read_file", Undecodable) >>, "", << >>) >>,
      << Resp("error", << >>, "", << >>) >>,
      << Resp("final", << >>, "Hello", << >>) >> }

NextFrame ==
    \/ chat(UserMessages, FrameGaps, FrameScripts, Callbacks, MaxTurns)
    \/ clear_history
    \/ clear_memories
    \/ start_new_session
    \/ get_conversation_by_id({current_session_id})
    \/ LoopStep

SpecFrame == Init /\ [][NextFrame]_vars

RegNames == {"get_current_time", "custom_tool"}

\* calls of the filesystem tools
NextFiles ==
    \/ read_file
    \/ write_file
    \/ list_directory
    \/ file_exists

SpecFiles == Init /\ [][NextFiles]_vars

\* one turn with one batch of one or two calls, to a built-in tool and to a
\* tool registered only by a concurrent add_tool, while another thread
\* registers and unregisters tools
ConcurrentCalls ==
    { Call("get_current_time", AsDict("a1")),
      Call("get_current_time", AsDict("a2")),
      Call("custom_tool", AsDict("a1")),
      Call("custom_tool", AsDict("bad_kw")) }
ConcurrentScripts ==
    { << r, Resp("final", << >>, "Hello", << >>) >> :
         r \in ToolCallResps(SeqsUpTo(ConcurrentCalls, 2)) }

NextConcurrent ==
    \/ chat(UserMessages, {0}, ConcurrentScripts, Callbacks, 1)
    \/ ModelReturnsToolCalls
    \/ \E i \in pending : HandlerCompletes(i)
    \/ add_tool_during_dispatch(RegNames, 1..MaxHandler)
    \/ remove_tool_during_dispatch(RegNames)
    \/ ReassembleBatch
    \/ ModelReturnsFinal
    \/ ResumeAfterContent
    \/ TurnOver

SpecConcurrent == Init /\ [][NextConcurrent]_vars
Handlers == 1..MaxHandler

NextRegistry ==
    \/ add_tool(RegNames, Handlers)
    \/ remove_tool(RegNames)
    \/ clear_tools

SpecRegistry == Init /\ [][NextRegistry]_vars

FairSpec == Spec /\ WF_vars(LoopStep) /\ WF_vars(StreamStep)

(***************************************************************************)
(* Claims.                                                                 *)
(***************************************************************************)
InTurn == pc \notin {"idle", "returned"}

\* the responses the inference service gave so far in this turn
Answered == [k \in 1..n_chat |-> ResponseAt(k)]

WellFormed(calls) == \A i \in 1..Len(calls) : Decodes(calls[i].arguments)

\* the turn ended because the inference service raised
InferenceFailed ==
    \/ n_chat > 0 /\ Answered[n_chat].kind = "error"
    \/ n_stream > 0 /\ script[1].kind = "stream_error"

\* C1: whatever the inference service answers, a turn issues at most
\* max_iterations inference calls, and (every inference call and every
\* handler returning, the caller draining the generator) the turn ends.
C1_BoundedTurn ==
    /\ [](n_chat + n_stream <= max_iterations)
    /\ (InTurn ~> pc = "returned")

C1_Witness ==
    /\ pc = "returned"
    /\ DOMAIN pre.history # {}
    /\ n_chat = max_iterations
    /\ \A k \in 1..n_chat : Answered[k].kind = "tool_calls"

C3_CapRecordsNothing ==
    (pc = "returned" /\ ended = "cap")
    => /\ conversation_history =
             add_to_history(pre.history, max_history_turns, "user", message)
       /\ \A i \in 1..Len(conversation_history) :
             conversation_history[i].role = "assistant"
                => Len(conversation_history) - i < Len(pre.history)
       /\ collection = pre.collection
       /\ Len(collection) = Len(pre.collection)
       /\ current_session_id = pre.session_id
       /\ last_message_time = pre.last

C3_Witness ==
    /\ pc = "returned"
    /\ ended = "cap"
    /\ Len(pre.collection) > 0
    /\ pre.last # None
    /\ clock - pre.last[1] > session_timeout

(***************************************************************************)
(* Dispatch claims.                                                        *)
(***************************************************************************)
\* the calls of the batches dispatched so far, each with its batch
RECURSIVE FlatCalls(_)
FlatCalls(bs) ==
    IF bs = << >> THEN << >>
    ELSE [i \in 1..Len(Head(bs)) |-> [call |-> Head(bs)[i], batch |-> Head(bs)]]
         \o FlatCalls(Tail(bs))

\* what the handler named by a call returns for the call's arguments
HandlerResult(c) == execute_tool(c.name, DecodeArgs(c.arguments))

DistinctNames(calls) ==
    \A i, j \in 1..Len(calls) : calls[i].name = calls[j].name => i = j

BetweenPasses == pc \in {"call_model", "yield_content", "yield_sentinel"}

\* the message list is the system prompt, the history and one
\* (assistant, tool) pair per dispatched call, in call order
PairsLaidOut(cs, base) ==
    /\ base = 1 + Len(conversation_history)
    /\ messages[1].role = "system"
    /\ SubSeq(messages, 2, base) = HistoryMsgs(conversation_history)
    /\ \A j \in 1..Len(cs) :
          /\ messages[base + 2 * j - 1] = Msg("assistant", "", << cs[j].call >>)
          /\ messages[base + 2 * j].role = "tool"
          /\ messages[base + 2 * j].tool_calls = << >>

\* C4 (as amended): before every further inference call the message list
\* holds, for each call of each dispatched batch in call order, one
\* assistant message with that single call immediately followed by one tool
\* message; the tool message carries the result of a call of that batch to
\* the same tool name (the call's own result when the name is not repeated).
C4_PairsPerCall ==
    BetweenPasses =>
       LET cs == FlatCalls(batches)
           base == Len(messages) - 2 * Len(cs)
       IN /\ PairsLaidOut(cs, base)
          /\ \A j \in 1..Len(cs) :
                \E i \in 1..Len(cs[j].batch) :
                   /\ cs[j].batch[i].name = cs[j].call.name
                   /\ messages[base + 2 * j].content
                         = json_dumps(HandlerResult(cs[j].batch[i]))

\* C4 as claimed: every tool message carries the result of its own call.
C4_OwnResultPerCall ==
    BetweenPasses =>
       LET cs == FlatCalls(batches)
           base == Len(messages) - 2 * Len(cs)
       IN /\ PairsLaidOut(cs, base)
          /\ \A j \in 1..Len(cs) :
                messages[base + 2 * j].content = json_dumps(HandlerResult(cs[j].call))

C4_Witness ==
    /\ pc = "call_model"
    /\ Len(batches) = 1
    /\ Len(tool_calls) = 3
    /\ tool_calls[1].name = tool_calls[3].name
    /\ tool_calls[1].arguments # tool_calls[3].arguments
    /\ tool_calls[2].name # tool_calls[1].name
    /\ Len(messages) = 2 + 6

\* the position in the completion order of call i
CompletedAt(i) == CHOOSE k \in 1..Len(completed) : completed[k] = i

\* among the calls of the batch naming the tool of call i, the last to complete
LastCompleted(i) ==
    CHOOSE j \in 1..Len(tool_calls) :
        /\ tool_calls[j].name = tool_calls[i].name
        /\ \A k \in 1..Len(tool_calls) :
              tool_calls[k].name = tool_calls[i].name
                 => CompletedAt(k) <= CompletedAt(j)

\* the content of the tool message paired with call i of the last batch
ToolMessageOf(i) == messages[Len(messages) - 2 * (Len(tool_calls) - i)].content

IsError(r) == r.error # ""

\* C6: a handler that raises becomes an error result of its own call only:
\* every call of the batch runs and gets the result its own tool and
\* arguments give, the dispatch raises nothing, and the turn goes on to the
\* next inference call.
C6_RaiseIsolated ==
    /\ \A i \in DOMAIN invoked :
          LET c == tool_call_list[i]
          IN IF c.name \notin DOMAIN tools
             THEN invoked[i] = Err("Tool '" \o c.name \o "' not found")
             ELSE IF HandlerRaises(tools[c.name], c.arguments)
                  THEN invoked[i] = Err("unexpected keyword argument")
                  ELSE invoked[i] = Ok(c.name, tools[c.name], c.arguments)
    /\ (pc = "dispatch" /\ pending = {})
          => /\ DOMAIN invoked = 1..Len(tool_call_list)
             /\ DistinctNames(tool_calls)
                   => /\ DOMAIN results = {tool_calls[i].name : i \in 1..Len(tool_calls)}
                      /\ \A i \in 1..Len(tool_calls) :
                            results[tool_calls[i].name] = invoked[i]
    /\ (pc = "returned" /\ ended = "failed")
          => \/ InferenceFailed
             \/ /\ n_chat > 0
                /\ Answered[n_chat].kind = "tool_calls"
                /\ ~WellFormed(Answered[n_chat].calls)

C6_Witness ==
    /\ pc = "call_model"
    /\ iteration = 1
    /\ Len(tool_calls) = 3
    /\ DistinctNames(tool_calls)
    /\ HandlerRaises(tools[tool_call_list[1].name], tool_call_list[1].arguments)
    /\ completed[1] = 1
    /\ Cardinality({i \in 1..3 : IsError(invoked[i])}) = 1
    /\ Cardinality({n \in DOMAIN results : ~IsError(results[n])}) = 2

(***************************************************************************)
(* History, session and recording claims.                                  *)
(***************************************************************************)
LastOf(sq, n) == SubSeq(sq, Len(sq) - n + 1, Len(sq))

\* C7: the rolling history never holds more than 2 * max_history_turns
\* entries, and once more than that were appended it holds exactly the most
\* recently appended 2 * max_history_turns entries, in their order.
C7_HistoryWindow ==
    LET cap == 2 * max_history_turns
    IN /\ Len(conversation_history) <= cap
       /\ Len(appended) > cap
             => conversation_history = LastOf(appended, cap)

\* what C7 states, for the configurations with max_history_turns >= 1
HistoryWindowWhenPositive ==
    max_history_turns >= 1 => C7_HistoryWindow

C9_FinalAnswerRecorded ==
    (pc = "returned" /\ ended = "done")
    => /\ conversation_history =
             add_to_history(
                add_to_history(pre.history, max_history_turns, "user", message),
                max_history_turns, "assistant", full_response)
       /\ Len(conversation_history) <= 2 * max_history_turns
       /\ Len(collection) = Len(pre.collection) + 1
       /\ SubSeq(collection, 1, Len(pre.collection)) = pre.collection
       /\ collection[Len(collection)].session_id = current_session_id
       /\ collection[Len(collection)].user_message = message
       /\ collection[Len(collection)].assistant_response = full_response

\* C10: a turn that fails in an inference call leaves the rolling history
\* and the memory store as they were before the turn.
C10_FailedTurnLeavesNoEntry ==
    (pc = "returned" /\ ended = "failed" /\ InferenceFailed)
    => /\ conversation_history = pre.history
       /\ collection = pre.collection

(***************************************************************************)
(* Failure and final-answer claims.                                        *)
(***************************************************************************)
\* C11: an inference call that raises is the last thing its turn does: no
\* inference call and no tool dispatch follows it in the turn, the turn is
\* over with the failure (the exception has left the generator), and
\* nothing was recorded for it.
C11_NoRetryAfterFailure ==
    /\ \A k \in 1..n_chat :
          Answered[k].kind = "error"
             => /\ k = n_chat
                /\ pc = "returned"
                /\ ended = "failed"
                /\ pending = {}
                /\ Len(batches) = n_chat - 1
                /\ n_stream = 0
                /\ collection = pre.collection
    /\ (pc = "returned" /\ n_stream > 0 /\ script[1].kind = "stream_error")
          => /\ ended = "failed"
             /\ n_stream = 1
             /\ n_chat = 0
             /\ collection = pre.collection

C11_Witness ==
    /\ pc = "returned"
    /\ ended = "failed"
    /\ n_chat = 3
    /\ Answered[3].kind = "error"
    /\ Len(batches) = 2
    /\ Len(messages) > Len(conversation_history) + 1

\* C12: with tools registered, a turn that ends with a final answer has
\* re-issued the call in streaming mode, and every content event it emitted
\* is a chunk of that streaming call.
C12_FinalAnswerStreamed ==
    (pc = "returned" /\ ended = "done" /\ n_chat > 0)
    => /\ n_stream = 1
       /\ Len(ContentEvents) = chunk_pos

\* C13: a chat turn over an empty registry sends no tool definitions, makes
\* no non-streaming call and no tool pass, opens one stream and ends; a chat
\* turn over a non-empty registry sends the definitions of the registered
\* tools with every call, all of them non-streaming.
C13_ModeByRegistry ==
    method = "chat"
    => /\ DOMAIN tools = {}
             => /\ ollama_tools = None
                /\ n_chat = 0
                /\ iteration = 0
                /\ batches = << >>
                /\ n_stream <= 1
                /\ pc # "call_model"
                /\ pc = "returned" => n_stream = 1
       /\ DOMAIN tools # {}
             => /\ ollama_tools = Some(DOMAIN tools)
                /\ n_stream = 0
                /\ pc \notin {"call_stream", "streaming"}
                /\ pc = "returned" => n_chat >= 1

C13_Witness ==
    /\ method = "chat"
    /\ DOMAIN tools = {}
    /\ pc = "returned"
    /\ ended = "done"
    /\ n_stream = 1
    /\ n_chat = 0
    /\ Len(events) = 2
    /\ Len(pre.collection) = 1

(***************************************************************************)
(* Unknown tools, name collisions and the join.                            *)
(***************************************************************************)
Unregistered(i) == tool_call_list[i].name \notin DOMAIN tools

\* a call naming an unregistered tool completes with the error result
\* carrying msg, the mapping holds that result under the name, the other
\* calls of the batch complete with their own handler's result, and after
\* the join the turn goes on with the error as the call's tool message
UnknownToolYields(msg) ==
    /\ \A i \in DOMAIN invoked :
          IF Unregistered(i)
          THEN /\ invoked[i] = Err(msg)
               /\ results[tool_call_list[i].name] = Err(msg)
          ELSE invoked[i] = HandlerResult(tool_calls[i])
    /\ (pc = "dispatch" /\ pending = {})
          => DOMAIN invoked = 1..Len(tool_call_list)
    /\ (pc = "call_model" /\ tool_calls # << >>)
          => /\ ended = "none"
             /\ DOMAIN invoked = 1..Len(tool_call_list)
             /\ \A i \in 1..Len(tool_calls) :
                   Unregistered(i) => ToolMessageOf(i) = json_dumps(Err(msg))

\* C14 (as amended): a call naming an unregistered tool yields the error
\* result whose message is "Tool '<name>' not found"; nothing is raised and
\* every other call of the batch runs.
C14_UnknownToolIsError ==
    \A i \in 1..Len(tool_call_list) :
        Unregistered(i)
           => UnknownToolYields("Tool '" \o tool_call_list[i].name \o "' not found")

\* C14 as claimed: the error result is {error: "tool not found"}.
C14_UnknownToolLiteral ==
    \A i \in 1..Len(tool_call_list) :
        Unregistered(i) => UnknownToolYields("tool not found")

C14_Witness ==
    /\ pc = "call_model"
    /\ Len(tool_calls) = 3
    /\ tool_calls[2].name = UnknownTool
    /\ completed = << 2, 3, 1 >>
    /\ IsError(invoked[2])
    /\ ~IsError(invoked[1])
    /\ ~IsError(invoked[3])

Joined == pc = "dispatch" /\ pending = {}

SameName(i) == {k \in 1..Len(tool_calls) : tool_calls[k].name = tool_calls[i].name}

\* C15: when a tool name is repeated in a batch, every one of those calls'
\* handlers is invoked, the result mapping holds one entry per distinct
\* name, and the entry of the repeated name is the result of one of those
\* calls: the one whose execution completed last.
C15_NameCollision ==
    (Joined \/ (pc = "call_model" /\ tool_calls # << >>))
    => /\ DOMAIN invoked = 1..Len(tool_calls)
       /\ DOMAIN results = {tool_calls[i].name : i \in 1..Len(tool_calls)}
       /\ \A i \in 1..Len(tool_calls) :
             /\ invoked[i] = HandlerResult(tool_calls[i])
             /\ results[tool_calls[i].name] \in {invoked[k] : k \in SameName(i)}
             /\ results[tool_calls[i].name] = invoked[LastCompleted(i)]

C15_Witness ==
    /\ Joined
    /\ Len(tool_calls) = 2
    /\ tool_calls[1].name = tool_calls[2].name
    /\ invoked[1] # invoked[2]
    /\ completed = << 2, 1 >>
    /\ DOMAIN results = {tool_calls[1].name}
    /\ results[tool_calls[1].name] = invoked[1]

BatchNames == {tool_calls[i].name : i \in 1..Len(tool_calls)}

\* C16: the dispatch of a batch is left only when every submitted call has
\* completed, with a mapping that has an entry for every distinct tool name
\* of the batch, and an inference call is issued only when no call is
\* pending.
C16_JoinBarrier ==
    [][ /\ (pc = "dispatch" /\ pc' # "dispatch")
            => /\ pending = {}
               /\ DOMAIN invoked = 1..Len(tool_calls)
               /\ Len(completed) = Len(tool_calls)
               /\ DOMAIN results = BatchNames
               /\ results' = results
               /\ n_chat' = n_chat
        /\ n_chat' > n_chat
            => /\ pc = "call_model"
               /\ pending = {}
               /\ tool_calls # << >>
                     => /\ DOMAIN invoked = 1..Len(tool_calls)
                        /\ DOMAIN results = BatchNames
      ]_vars

C16_Witness ==
    /\ pc = "returned"
    /\ ended = "done"
    /\ n_chat = 2
    /\ Len(tool_calls) = 3
    /\ pending = {}
    /\ completed = << 3, 2, 1 >>
    /\ Cardinality(DOMAIN results) = 2

(***************************************************************************)
(* Registry claims.                                                        *)
(***************************************************************************)
\* the names registered and not removed since, according to the calls made
LiveNames ==
    { n \in {reg_log[i].name : i \in 1..Len(reg_log)} :
        \E i \in 1..Len(reg_log) :
           /\ reg_log[i] = RegOp("add", n, reg_log[i].handler)
           /\ \A j \in (i + 1)..Len(reg_log) : reg_log[j] # RegOp("remove", n, 0) }

\* the definition given by the latest registration of a name
LatestDefinition(n) ==
    LET adds == {i \in 1..Len(reg_log) : reg_log[i].op = "add" /\ reg_log[i].name = n}
    IN reg_log[CHOOSE i \in adds : \A j \in adds : j <= i].handler

\* C17: after any sequence of registry calls the registry holds one entry
\* for each name registered and not removed since, no other entry, and the
\* entry holds the definition of the name's latest registration;
\* registering an existing name is always possible.
C17_RegisterOverwrites ==
    /\ DOMAIN tools = LiveNames
    /\ Cardinality(DOMAIN tools) = Cardinality(LiveNames)
    /\ \A n \in DOMAIN tools : tools[n] = LatestDefinition(n)
    /\ (pc = "idle" /\ Len(reg_log) < MaxRegLog)
          => \A n \in DOMAIN tools \cap RegNames : ENABLED add_tool({n}, Handlers)

C17_Witness ==
    /\ Len(reg_log) = 4
    /\ reg_log[3] = RegOp("add", "get_current_time", 1)
    /\ reg_log[4] = RegOp("add", "get_current_time", 2)
    /\ tools["get_current_time"] = 2
    /\ Cardinality(DOMAIN tools) = 3

(***************************************************************************)
(* Session claims.                                                         *)
(***************************************************************************)
RecordAdded == Len(collection') = Len(collection) + 1

NewRecord == collection'[Len(collection')]

\* C18: while nothing has been recorded since construction, the session id
\* is the one minted at construction (time 0), and the first record is
\* added under that id, which stays current, whatever its timestamp.
C18_FirstTurnKeepsId ==
    [][ (RecordAdded /\ last_message_time = None /\ current_session_id[1] = 0)
        => /\ NewRecord.session_id = current_session_id
           /\ NewRecord.session_id[1] = 0
           /\ NewRecord.timestamp = clock
           /\ current_session_id' = current_session_id
      ]_vars

C18_Witness ==
    /\ Len(collection) = 1
    /\ collection[1].session_id[1] = 0
    /\ collection[1].session_id = current_session_id
    /\ collection[1].timestamp = 61
    /\ last_message_time = Some(61)

\* C19: a step that rotates the session id or clears the last-turn time
\* without recording anything mints the id at the current time and leaves
\* the last-turn time unset, whatever the time since the last record; the
\* record added next, while the last-turn time is unset, carries the
\* current id and does not rotate it, whatever the time elapsed.
C19_StartNewSession ==
    [][ /\ ( /\ collection' = collection
             /\ << current_session_id, last_message_time >>'
                   # << current_session_id, last_message_time >> )
            => /\ current_session_id'[1] = clock
               /\ current_session_id'[2] \in Suffixes
               /\ last_message_time' = None
               /\ clock' = clock
        /\ (RecordAdded /\ last_message_time = None)
            => /\ NewRecord.session_id = current_session_id
               /\ current_session_id' = current_session_id
               /\ last_message_time' = Some(NewRecord.timestamp)
      ]_vars

C19_Witness ==
    /\ Len(collection) = 2
    /\ collection[1].session_id[1] = 0
    /\ collection[2].session_id[1] = collection[1].timestamp
    /\ collection[2].timestamp - collection[1].timestamp = 31
    /\ collection[2].message_index = 0
    /\ current_session_id = collection[2].session_id

C21_ReconstructUnknown ==
    [][ /\ (reconstruction' # reconstruction
             /\ \A i \in 1..Len(collection) :
                   collection[i].session_id # reconstruction'[1].conv_id)
            => /\ reconstruction'[1].messages = << >>
               /\ reconstruction'[1].fetched = << >>
               /\ collection' = collection
               /\ current_session_id' = current_session_id
               /\ last_message_time' = last_message_time
        /\ (pc = "idle" /\ reconstruction = None)
            => \A id \in ReconIds : ENABLED get_conversation_by_id({id})
      ]_vars

C21_Witness ==
    /\ reconstruction # None
    /\ reconstruction[1].messages = << >>
    /\ reconstruction[1].conv_id = current_session_id
    /\ Len(collection) = 2
    /\ \A i \in 1..2 : collection[i].session_id # current_session_id

(***************************************************************************)
(* Prompt assembly claims.                                                 *)
(***************************************************************************)
\* the system prompt the running turn sends
SystemPrompt == messages[1].content

HitsOf(store) ==
    LET qs == SelectSeq(queries, LAMBDA q : q.store = store)
    IN IF qs = << >> THEN 0 ELSE qs[1].hits

\* C22: with the document store and the memory store both empty, the
\* system prompt a turn assembles is the base persona string and nothing
\* else, whatever the user message.
C22_EmptyStoresPersonaOnly ==
    /\ (rag_chunks = 0 /\ collection = << >>)
          => build_system_prompt = base_system_prompt
    /\ (pc # "idle" /\ rag_chunks = 0 /\ pre.collection = << >>)
          => /\ messages[1] = Msg("system", base_system_prompt, << >>)
             /\ queries = << >>

C22_Witness ==
    /\ pc = "call_model"
    /\ message = "what is new"
    /\ turns = 2
    /\ rag_chunks = 0
    /\ pre.collection = << >>
    /\ SystemPrompt = "You are Coeus"

\* C23: the system prompt is the persona, then the document-excerpts block
\* if and only if the document retrieval returned a hit, then the
\* past-conversations block if and only if the memory retrieval returned a
\* hit, each block after a blank line, in that order.
C23_PromptBlockOrder ==
    pc # "idle"
    => LET d == HitsOf("documents")
           m == HitsOf("memory")
       IN /\ d = Min(n_results, rag_chunks)
          /\ m = Min(n_results, Len(pre.collection))
          /\ messages[1].role = "system"
          /\ SystemPrompt =
                base_system_prompt
                   \o (IF d > 0
                       THEN "\n\n" \o "Relevant document excerpts: " \o ToString(d)
                       ELSE "")
                   \o (IF m > 0
                       THEN "\n\n" \o "Relevant past conversations: " \o ToString(m)
                       ELSE "")

C23_Witness ==
    /\ pc = "yield_content"
    /\ Len(queries) = 2
    /\ queries[1].count > n_results
    /\ queries[1].hits = n_results
    /\ queries[2].hits = 1
    /\ SystemPrompt # base_system_prompt

\* C24: a turn issues at most one similarity query per store, the document
\* query first, and issues a store's query exactly when that store holds
\* at least one record: no query runs against a store holding none.
C24_NoQueryOnEmptyStore ==
    pc # "idle"
    => /\ \A i \in 1..Len(queries) : queries[i].count > 0
       /\ \A i, j \in 1..Len(queries) :
             i < j => (queries[i].store = "documents" /\ queries[j].store = "memory")
       /\ (\E i \in 1..Len(queries) : queries[i].store = "documents")
             <=> rag_chunks > 0
       /\ (\E i \in 1..Len(queries) : queries[i].store = "memory")
             <=> pre.collection # << >>
       /\ \A i \in 1..Len(queries) :
             queries[i].count
                = (IF queries[i].store = "documents" THEN rag_chunks
                   ELSE Len(pre.collection))

C24_Witness ==
    /\ pc = "call_model"
    /\ rag_chunks = 2
    /\ pre.collection = << >>
    /\ queries = << Query("documents", 2) >>
    /\ turns = 2

(***************************************************************************)
(* Tool-call notifications.                                                *)
(***************************************************************************)
\* the notifications the turn has emitted so far, in order
ToolCallEvents == SelectSeq(events, LAMBDA e : e.type = "tool_call")

\* one notification for each call of each batch the service has returned in
\* this turn, in batch order and within a batch in call order
NotifiedCalls ==
    LET fc == FlatCalls(batches)
    IN [i \in 1..Len(fc) |-> ToolCallEvent(fc[i].call)]

TakesMalformed ==
    /\ Len(batches') = Len(batches) + 1
    /\ ~WellFormed(batches'[Len(batches')])

ToolMessages(ms) == SelectSeq(ms, LAMBDA m : m.role = "tool")

\* C26: a call whose argument blob cannot be decoded makes the decoding
\* failure leave the turn as an exception: the turn ends failed in that step,
\* no tool message (no {error} result) is added for the call, no handler of
\* the batch is dispatched and nothing is recorded.
C26_MalformedArgumentsRaise ==
    [][TakesMalformed =>
          /\ ended' = "failed"
          /\ pc' = "returned"
          /\ ToolMessages(messages') = ToolMessages(messages)
          /\ messages' = messages
          /\ UNCHANGED << tool_call_list, pending, invoked, completed, results >>
          /\ UNCHANGED << conversation_history, collection >>]_vars

\* a batch whose second call does not decode, after a call that does: the
\* turn has failed and the first call was never dispatched
C26_Witness ==
    /\ pc = "returned"
    /\ ended = "failed"
    /\ Len(tool_calls) = 2
    /\ Decodes(tool_calls[1].arguments)
    /\ ~Decodes(tool_calls[2].arguments)
    /\ invoked = << >>
    /\ ToolMessages(messages) = << >>
(***************************************************************************)
(* Chunking.                                                               *)
(***************************************************************************)
Chunking == chunker.phase = "loop"

\* C27: while the loop of _chunk_text keeps running, chunking of a text of
\* any number of words comes to its end when the overlap is strictly less
\* than the chunk size; with an overlap greater than or equal to the size
\* and a text of at least one word the start position never passes the end,
\* so no step leaves the loop.
C27_ChunkingTerminates ==
    /\ (Chunking /\ chunker.overlap < chunker.size) ~> ~Chunking
    /\ [][(Chunking /\ chunker.overlap >= chunker.size /\ chunker.n > 0) =>
            /\ chunker'.phase = "loop"
            /\ chunker'.start <= chunker.start
            /\ ChunkLoopContinues(chunker')]_vars

\* a text of more words than the chunk size, chunked with a positive
\* overlap smaller than the size: the loop has produced overlapping chunks
\* and its condition has become false
C27_Witness ==
    /\ Chunking
    /\ 0 < chunker.overlap
    /\ chunker.overlap < chunker.size
    /\ chunker.size < chunker.n
    /\ Len(chunker.chunks) >= 3
    /\ ~ChunkLoopContinues(chunker)
(***************************************************************************)
(* The worker pool.                                                        *)
(***************************************************************************)
\* the calls of the batch that wait for a worker
Queued == pending \ Running

\* C28: at no time do more than max_workers handlers execute; while calls
\* wait for a worker some handler is executing, the calls that wait are the
\* last submitted, and when the batch is over every call of it, however many,
\* has been executed.
C28_BoundedPool ==
    /\ Cardinality(Running) <= max_workers
    /\ Queued # {} => Cardinality(Running) = max_workers
    /\ \A q \in Queued : \A r \in Running : r < q
    /\ (pc = "dispatch" /\ pending # {}) => Running # {}
    /\ (BetweenPasses /\ iteration > 0) =>
          /\ DOMAIN invoked = 1..Len(tool_calls)
          /\ Len(completed) = Len(tool_calls)

\* a batch of more calls than workers: the last call, which had to wait for
\* a worker, has been executed while earlier calls are still running
C28_Witness ==
    /\ pc = "dispatch"
    /\ Len(tool_call_list) > max_workers
    /\ Len(tool_call_list) \in DOMAIN invoked
    /\ Running # {}
    /\ Len(completed) < max_workers
(***************************************************************************)
(* The order of the appends of a turn.                                     *)
(***************************************************************************)
\* the tool exchanges in the message list of the turn, as history entries
ExchangeEntries ==
    LET ex == SelectSeq(messages, LAMBDA m : m.role = "tool" \/ m.tool_calls # << >>)
    IN [i \in 1..Len(ex) |-> Entry(ex[i].role, ex[i].content)]

\* the calls of the assistant messages of the tool exchanges, in list order
ExchangeCalls ==
    LET ex == SelectSeq(messages, LAMBDA m : m.tool_calls # << >>)
    IN [i \in 1..Len(ex) |-> ex[i].tool_calls[1]]

BeginsTurn == pc = "idle" /\ pc' # "idle"
AppendsExchanges == pc # "idle" /\ Len(messages') > Len(messages)
AppendsToHistory == pc # "idle" /\ Len(appended') > Len(appended)

Inserts(w) == writers[w].phase = "counted" /\ writers'[w].phase = "idle"

\* writer v has counted the records of the session of record r and found as
\* many as r holds as its ordinal
CountedLike(v, r) ==
    /\ writers[v].phase = "counted"
    /\ writers[v].record.session_id = r.session_id
    /\ writers[v].record.message_index = r.message_index

StoredOrdinals(coll, sid) ==
    { coll[k].message_index : k \in { j \in 1..Len(coll) : coll[j].session_id = sid } }

\* C30: add_memory stores the ordinal it counted before its insert, whatever
\* has been inserted since; so when two writers of one session have both
\* counted before either inserts, the insert of the first leaves the second
\* about to store an ordinal the session already holds.
C30_RacyOrdinals ==
    [][\A w \in Writers : Inserts(w) =>
          LET r == writers[w].record
          IN /\ RecordAdded
             /\ NewRecord = r
             /\ \A v \in Writers \ {w} : CountedLike(v, r) =>
                   /\ writers'[v] = writers[v]
                   /\ r.message_index \in StoredOrdinals(collection', r.session_id)
                   /\ get_session_message_count(collection', r.session_id)
                         > writers'[v].record.message_index]_vars

\* two records of one session, written for different messages, hold the same
\* ordinal
C30_Witness ==
    \E i, j \in 1..Len(collection) :
       /\ i < j
       /\ collection[i].session_id = collection[j].session_id
       /\ collection[i].message_index = collection[j].message_index
       /\ collection[i].user_message # collection[j].user_message
(***************************************************************************)
(* The chunks of a text.                                                   *)
(***************************************************************************)
\* the loop of _chunk_text has been left and its chunks are about to be
\* returned, for an overlap below the chunk size and a text of some words
ChunksReturned ==
    /\ Chunking
    /\ ~ChunkLoopContinues(chunker)
    /\ 0 <= chunker.overlap
    /\ chunker.overlap < chunker.size
    /\ chunker.n >= 1

\* the words two chunks have in common (chunks are ranges of word positions)
Shared(a, b) ==
    {w \in a.start_word..(a.end_word - 1) : b.start_word <= w /\ w < b.end_word}

\* C31: for 0 <= O < S and W >= 1 words the chunks returned are numbered
\* 0, 1, 2, ...; chunk i starts at word i * (S - O) and ends at
\* min(i * (S - O) + S, W); every word lies in a chunk; two consecutive
\* chunks share exactly O words unless the earlier one is cut short by the
\* end of the text, and then they share fewer.
C31_ChunkLayout ==
    ChunksReturned =>
       LET S == chunker.size
           O == chunker.overlap
           W == chunker.n
           cs == chunker.chunks
       IN /\ Len(cs) >= 1
          /\ \A k \in 1..Len(cs) :
                /\ cs[k].chunk_index = k - 1
                /\ cs[k].start_word = (k - 1) * (S - O)
                /\ cs[k].end_word = Min((k - 1) * (S - O) + S, W)
                /\ cs[k].start_word < cs[k].end_word
          /\ \A w \in 0..(W - 1) :
                \E k \in 1..Len(cs) : cs[k].start_word <= w /\ w < cs[k].end_word
          /\ \A k \in 1..(Len(cs) - 1) :
                IF cs[k].start_word + S <= W
                THEN Cardinality(Shared(cs[k], cs[k + 1])) = O
                ELSE Cardinality(Shared(cs[k], cs[k + 1])) < O

\* a text chunked with overlap 2 and size 3: chunks that share two words,
\* and at the tail a chunk cut short that shares one word with the next
C31_Witness ==
    /\ ChunksReturned
    /\ chunker.overlap = 2
    /\ Len(chunker.chunks) >= 4
    /\ \E k \in 1..(Len(chunker.chunks) - 1) :
          Cardinality(Shared(chunker.chunks[k], chunker.chunks[k + 1])) = 1
    /\ Cardinality(Shared(chunker.chunks[1], chunker.chunks[2])) = 2
(***************************************************************************)
(* The streaming path.                                                     *)
(***************************************************************************)
\* a turn on the streaming path: chat_streaming, or chat with no tool
Streaming == pc # "idle" /\ ollama_tools = None

\* the texts emitted to the caller so far, in order
Emitted == [i \in 1..Len(events) |-> events[i].text]

RECURSIVE Concat(_)
Concat(ss) == IF ss = << >> THEN "" ELSE Head(ss) \o Concat(Tail(ss))

\* C32: on the streaming path the chunks reach the caller in the order the
\* service produced them, nothing else is emitted, and the assistant text
\* appended to the history and stored in memory is the concatenation of the
\* emitted chunks in that order.
C32_StreamedTextRecorded ==
    /\ [](Streaming =>
            /\ \A i \in 1..Len(events) : events[i].type = "content"
            /\ Len(Emitted) <= Len(script[1].chunks)
            /\ Emitted = SubSeq(script[1].chunks, 1, Len(Emitted))
            /\ full_response = Concat(Emitted))
    /\ [][(Streaming /\ Len(appended') > Len(appended)) =>
            /\ Emitted = script[1].chunks
            /\ appended' = Append(appended, Entry("assistant", Concat(Emitted)))
            /\ conversation_history'[Len(conversation_history')]
                  = Entry("assistant", Concat(Emitted))
            /\ RecordAdded
            /\ NewRecord.assistant_response = Concat(Emitted)
            /\ NewRecord.user_message = message
            /\ events' = events]_vars

\* chat, with every tool removed, has streamed two chunks and recorded their
\* concatenation
C32_Witness ==
    /\ pc = "returned"
    /\ method = "chat"
    /\ ollama_tools = None
    /\ ended = "done"
    /\ Emitted = << "He", "llo" >>
    /\ appended[Len(appended)] = Entry("assistant", "Hello")
    /\ collection[Len(collection)].assistant_response = "Hello"
(***************************************************************************)
(* Calls of one batch to the same tool.                                    *)
(***************************************************************************)
\* the pairs of the last batch are in the message list
BatchPaired == pc = "call_model" /\ tool_calls # << >>

\* C33: the calls of a batch that name the same tool are all paired, in the
\* message list, with one and the same payload, the result of one of them;
\* the payload of a call may therefore be the result of another call's
\* arguments.
C33_SharedPayload ==
    BatchPaired =>
       \A i \in 1..Len(tool_calls) :
          /\ \A j \in SameName(i) : ToolMessageOf(j) = ToolMessageOf(i)
          /\ \E k \in SameName(i) :
                \A j \in SameName(i) :
                   ToolMessageOf(j) = json_dumps(HandlerResult(tool_calls[k]))

\* two calls to one tool with different arguments and different results: the
\* first call is paired with the result of the second call's arguments
C33_Witness ==
    /\ BatchPaired
    /\ Len(tool_calls) = 2
    /\ tool_calls[1].name = tool_calls[2].name
    /\ tool_calls[1].arguments # tool_calls[2].arguments
    /\ ToolMessageOf(1) = ToolMessageOf(2)
    /\ ToolMessageOf(1) = json_dumps(HandlerResult(tool_calls[2]))
    /\ ToolMessageOf(1) # json_dumps(HandlerResult(tool_calls[1]))
(***************************************************************************)
(* What the rolling history holds.                                         *)
(***************************************************************************)
SystemMessages(ms) == SelectSeq(ms, LAMBDA m : m.role = "system")

\* C34: whatever turns and clear_history calls have happened, the rolling
\* history holds user and assistant entries only; the system prompt is the
\* first message of a turn's list and of that list alone, and the list a turn
\* starts with holds no tool call and no tool result of an earlier turn.
C34_HistoryRoles ==
    /\ [](\A i \in 1..Len(conversation_history) :
             conversation_history[i].role \in {"user", "assistant"})
    /\ [](pc # "idle" =>
             /\ messages[1].role = "system"
             /\ Len(SystemMessages(messages)) = 1)
    /\ [][BeginsTurn =>
             /\ ExchangeEntries' = << >>
             /\ Len(messages') = 1 + Len(conversation_history')
             /\ \A i \in 2..Len(messages') :
                   /\ messages'[i].role \in {"user", "assistant"}
                   /\ messages'[i].tool_calls = << >>]_vars

\* the second turn, begun on a history of three entries, has appended a tool
\* exchange to its message list; the history holds none
C34_Witness ==
    /\ turns = 2
    /\ pc = "call_model"
    /\ iteration = 1
    /\ Len(ExchangeEntries) = 2
    /\ Len(messages) = 6
    /\ Len(conversation_history) = 3
    /\ \A i \in 1..3 : conversation_history[i].role # "tool"
(***************************************************************************)
(* A caller that stops consuming.                                          *)
(***************************************************************************)
Abandoned == ended = "abandoned"

\* C35: when the caller stops consuming before the output is exhausted the
\* turn records nothing further: the step itself changes neither history nor
\* memory, and afterwards the history is the history the turn started on
\* plus its user entry, with no assistant entry, and memory and session are
\* as they were when the turn started.
C35_AbandonedTurn ==
    /\ [][Abandoned' /\ ~Abandoned =>
            UNCHANGED << conversation_history, appended, memory_vars >>]_vars
    /\ [](Abandoned =>
            /\ conversation_history
                  = add_to_history(pre.history, max_history_turns, "user", message)
            /\ appended[Len(appended)] = Entry("user", message)
            /\ collection = pre.collection
            /\ current_session_id = pre.session_id
            /\ last_message_time = pre.last)

\* the caller of a streaming turn has taken the first of two chunks and
\* stopped; the user entry is the last entry of the history
C35_Witness ==
    /\ Abandoned
    /\ ollama_tools = None
    /\ Len(script[1].chunks) = 2
    /\ Emitted = << "He" >>
    /\ conversation_history[Len(conversation_history)] = Entry("user", message)
    /\ collection = pre.collection
(***************************************************************************)
(* What changes the session.                                               *)
(***************************************************************************)
SessionState == << current_session_id, last_message_time >>

\* the step is a call of start_new_session
StartsNewSession ==
    /\ pc = "idle" /\ pc' = "idle"
    /\ last_message_time' = None
    /\ collection' = collection
    /\ \E sfx \in Suffixes : current_session_id' = generate_session_id(clock, sfx)

MalformedBatchTaken == batches # << >> /\ ~WellFormed(batches[Len(batches)])

\* the calls of the batches before the last one
EarlierCalls ==
    LET fc == FlatCalls(SubSeq(batches, 1, Len(batches) - 1))
    IN [i \in 1..Len(fc) |-> fc[i].call]

\* C37: the step that takes a batch with an undecodable call invokes no
\* handler, not even for a well-formed call that precedes the undecodable
\* one, and appends nothing to the message list; afterwards the list holds
\* the exchanges of the earlier batches only and no handler is running.
C37_MalformedBatchFrame ==
    /\ [][TakesMalformed =>
            /\ UNCHANGED << invoked, completed >>
            /\ pending' = {}
            /\ ExchangeCalls' = ExchangeCalls
            /\ ExchangeEntries' = ExchangeEntries]_vars
    /\ [](MalformedBatchTaken =>
            /\ pc = "returned"
            /\ Running = {}
            /\ ExchangeCalls = EarlierCalls
            /\ Len(ExchangeEntries) = 2 * Len(EarlierCalls)
            /\ Len(completed) = IF Len(batches) = 1 THEN 0
                                ELSE Len(batches[Len(batches) - 1]))

\* after a first batch of one call, a second batch whose first call is well
\* formed and whose second call does not decode: the handler invoked for
\* the first batch is the only one invoked
C37_Witness ==
    /\ MalformedBatchTaken
    /\ Len(batches) = 2
    /\ Len(batches[1]) = 1
    /\ Len(batches[2]) = 2
    /\ Decodes(batches[2][1].arguments)
    /\ batches[2][1] # batches[1][1]
    /\ completed = << 1 >>
    /\ ExchangeCalls = batches[1]
(***************************************************************************)
(* The registry changed while a batch is dispatched.                       *)
(***************************************************************************)
\* the handlers registered under a name at some moment of the dispatch: the
\* built-in one, registered when the dispatch began, and those added since
RegisteredDuring(name) ==
    (IF name \in BuiltinTools THEN {1} ELSE {})
      \cup { reg_log[k].handler :
               k \in { j \in (Len(BuiltinRegistrations) + 1)..Len(reg_log) :
                         reg_log[j].op = "add" /\ reg_log[j].name = name } }

\* what handler h returns, through execute_tool, for a call
ResultWith(h, c) ==
    IF HandlerRaises(h, c.arguments)
    THEN Err("unexpected keyword argument")
    ELSE execute(c.name, h, c.arguments)

NotFound(name) == Err("Tool '" \o name \o "' not found")

\* C38: with add_tool and remove_tool interleaved with a dispatch, every
\* call of the batch yields the result of a handler registered under its
\* name at some moment of the dispatch, or the not-found error; no step of
\* the dispatch fails the turn, every call completes, and the registry
\* changes only by the add_tool and remove_tool calls.
C38_DispatchUnderMutation ==
    /\ []((pc = "dispatch" \/ BatchPaired) =>
            \A i \in DOMAIN invoked :
               invoked[i] \in
                  { ResultWith(h, tool_call_list[i]) :
                        h \in RegisteredDuring(tool_call_list[i].name) }
                  \cup { NotFound(tool_call_list[i].name) })
    /\ [](BatchPaired => DOMAIN invoked = 1..Len(tool_calls))
    /\ [][pc = "dispatch" =>
            /\ ended' = ended
            /\ pc' \in {"dispatch", "call_model"}
            /\ tools' # tools =>
                  /\ Len(reg_log') = Len(reg_log) + 1
                  /\ UNCHANGED << invoked, completed, pending, messages >>]_vars

\* two calls to one tool: the first ran the handler registered when the
\* dispatch began, the second the handler a concurrent add_tool put in its
\* place
C38_Witness ==
    /\ pc = "dispatch"
    /\ Len(tool_calls) = 2
    /\ tool_calls[1].name = tool_calls[2].name
    /\ DOMAIN invoked = {1, 2}
    /\ invoked[1].handler = 1
    /\ invoked[2].handler = 2
    /\ Mutations = 1
(***************************************************************************)
(* Ordinals with one writer.                                               *)
(***************************************************************************)
\* the records stored before record i under the session of record i
EarlierInSession(i) ==
    {j \in 1..(i - 1) : collection[j].session_id = collection[i].session_id}

InsideBase(path) ==
    /\ Len(path) >= Len(base_dir)
    /\ SubSeq(path, 1, Len(base_dir)) = base_dir

\* C40: every call of a filesystem tool touches only the base directory or
\* paths inside it, and a path that resolves outside the base directory
\* yields an error result and no file access.
C40_ConfinedToBase ==
    \A k \in 1..Len(fs_log) :
       /\ \A t \in fs_log[k].touched : InsideBase(t)
       /\ ~InsideBase(fs_log[k].resolved) =>
             /\ fs_log[k].error
             /\ fs_log[k].touched = {}

\* the confinement the prefix test of safe_path gives: a path is refused
\* unless the text of its resolved form begins with the text of the base
ConfinedByTextPrefix ==
    \A k \in 1..Len(fs_log) :
       /\ \A t \in fs_log[k].touched :
             \/ startswith(str(t), str(base_dir))
             \/ t = parent(fs_log[k].resolved)
       /\ ~startswith(str(fs_log[k].resolved), str(base_dir)) =>
             /\ fs_log[k].error
             /\ fs_log[k].touched = {}
====
